---- MODULE Spec2Model ----
(***************************************************************************)
(* Analysis pipeline of the code-map generator: Orchestrator.analyzeProject *)
(* (worker pool, merge, linkage post-passes, APIRoute duplicate collapse,   *)
(* deterministic sort) together with the InteractionAnalyzer passes and the *)
(* language strategies the pipeline properties depend on.                   *)
(*                                                                          *)
(* Representation.                                                          *)
(*  - A path is the sequence of its segments ("/p/a.js" is <<"p","a.js">>); *)
(*    the empty filePath '' of synthetic nodes is <<>>.                     *)
(*  - A node id is the tuple of the fields fed to SHA-1, flattened          *)
(*    (`function:${name}:${filePath}` is <<"function", name>> \o filePath); *)
(*    SHA-1 is taken to be injective on these inputs.  Synthetic ids are    *)
(*    <<"db:generic">>, <<"table:", n>>, <<"image:", r>>,                   *)
(*    <<"graphql:schema">>.  A raw (non-id) edge target such as an import   *)
(*    specifier is <<"raw:">> \o its segments: source text is taken never   *)
(*    to spell a 40-digit digest or a synthetic id.                         *)
(*  - A codeSnippet is the record of the features the analyzers' regular    *)
(*    expressions extract from it.                                          *)
(*  - A route label or call path handed to routeToRegex / normalizePath is  *)
(*    the sequence of its characters.                                       *)
(*                                                                          *)
(* Specifications.  Spec: the pipeline over readable, parsed files.         *)
(* SpecEnv: the pipeline with missing, unreadable, oversized or unparsed   *)
(* files and both ways of file discovery.  SpecLinkage: the public linkage  *)
(* passes in any order.  SpecRoute: one route-matching call.  SpecHelm:     *)
(* the pipeline over the files of two Helm charts.  SpecBrace: one call of  *)
(* findMatchingBrace on a code given as the sequence of its characters.     *)
(* SpecQuality: CodeQualityAnalyzer.analyze on a map whose snippets are     *)
(* given by what the detectors' patterns find in them.                      *)
(***************************************************************************)
EXTENDS Integers, Sequences, FiniteSets, TLC

\* ------------------------------------------------------------------ bounds
MaxFiles == 2
MaxConcurrency == 2
MaxPasses == 3

\* ----------------------------------------------------------------- helpers
SeqToSet(s) == {s[i] : i \in 1..Len(s)}

\* Array.prototype.find / findIndex: index of the first element satisfying P, 0 if none
FindIndex(s, P(_)) ==
  IF \E i \in 1..Len(s) : P(s[i])
  THEN CHOOSE i \in 1..Len(s) : P(s[i]) /\ \A j \in 1..(i-1) : ~P(s[j])
  ELSE 0

RECURSIVE Flatten(_)
Flatten(ss) == IF ss = <<>> THEN <<>> ELSE Head(ss) \o Flatten(Tail(ss))

\* lexicographic order on sequences of integers
RECURSIVE IntSeqLess(_, _)
IntSeqLess(a, b) ==
  IF b = <<>> THEN FALSE
  ELSE IF a = <<>> THEN TRUE
  ELSE IF Head(a) # Head(b) THEN Head(a) < Head(b)
  ELSE IntSeqLess(Tail(a), Tail(b))

\* The strings that occur in sort keys, in the order the comparators' localeCompare
\* puts them: punctuation before letters, a lower-case letter before its upper-case.
\* An id is ordered by the tuple it hashes, which stands for the order of the digests.
Alphabet ==
  << "", ".", "..", "@1", "@2", "@3", "/items", "/users", "#1", "#2", "#3", "#4",
     "a.js", "api", "API_CALL", "api-route", "APIRoute", "app", "App", "aws_s3_bucket",
     "aws_s3_bucket.log", "aws_s3_bucket.site", "b", "b.js", "c.php", "c1", "c2", "Chart.yaml", "class", "Class", "Component", "d.yaml", "Database",
     "DB_QUERY", "db:generic", "Deployment", "file", "File", "function", "Function",
     "Get", "GET", "GraphQL Schema", "graphql:schema", "Helm Chart", "helm-chart", "image:", "IMPORTS", "index", "k.yaml",
     "kind", "Kustomization", "kustomization.yaml", "load", "lodash", "log", "m.go", "main", "main.tf", "method", "mod", "module:mod",
     "modules", "nginx", "orders", "p", "Pod", "POST", "PostsController", "q.graphql", "raw:",
     "READS_FROM", "REFERENCES", "route.ts", "s.sql", "save", "Service", "show", "site", "table",
     "table:", "templates", "tf-module", "tf-resource", "user", "users", "UsersController", "values.yaml", "WRITES_TO" >>

Rank(s) == CHOOSE i \in 1..Len(Alphabet) : Alphabet[i] = s

\* sort key of a sequence of strings (a path or an id): the ranks, closed by 0
StrSeqKey(p) == [i \in 1..Len(p) |-> Rank(p[i])] \o <<0>>

\* the permutation of s that puts the element of position pos[i] at pos[i]
Permute(s, pos) == [k \in 1..Len(s) |-> s[CHOOSE i \in 1..Len(s) : pos[i] = k]]

\* the positions a stable sort gives the elements of sort keys `keys`: an element goes
\* after the smaller ones and after the earlier ties
StablePositions(keys) ==
  [i \in 1..Len(keys) |->
     Cardinality({j \in 1..Len(keys) : IntSeqLess(keys[j], keys[i])
                                        \/ (j < i /\ keys[j] = keys[i])}) + 1]

\* Array.prototype.sort (stable since ES2019) under a comparator that orders the
\* elements by Key
StableSort(s, Key(_)) ==
  CHOOSE r \in {Permute(s, pos) : pos \in {StablePositions(keys) \o <<>> :
                                            keys \in {[i \in 1..Len(s) |-> Key(s[i])] \o <<>>}}} : TRUE

\* ------------------------------------------------------------------- paths
\* path.resolve(base, rel) for an absolute base: rel is a sequence of segments,
\* "." stays, ".." goes up one directory
RECURSIVE PathResolve(_, _)
PathResolve(base, rel) ==
  IF rel = <<>> THEN base
  ELSE IF Head(rel) = "." THEN PathResolve(base, Tail(rel))
  ELSE IF Head(rel) = ".." THEN
         PathResolve(IF base = <<>> THEN <<>> ELSE SubSeq(base, 1, Len(base) - 1), Tail(rel))
  ELSE PathResolve(Append(base, Head(rel)), Tail(rel))

\* path.dirname
Dirname(p) == IF p = <<>> THEN <<>> ELSE SubSeq(p, 1, Len(p) - 1)

\* path.extname of the files of the corpus
Extname(p) ==
  IF p = <<>> THEN ""
  ELSE CASE p[Len(p)] \in {"a.js", "b.js"} -> ".js"
         [] p[Len(p)] = "m.go" -> ".go"
         [] p[Len(p)] = "main.tf" -> ".tf"
         [] p[Len(p)] = "s.sql" -> ".sql"
         [] p[Len(p)] \in {"Chart.yaml", "d.yaml", "k.yaml", "kustomization.yaml", "values.yaml"} -> ".yaml"
         [] p[Len(p)] = "q.graphql" -> ".graphql"
         [] p[Len(p)] = "c.php" -> ".php"
         [] p[Len(p)] = "route.ts" -> ".ts"
         [] OTHER -> ""

\* require.resolve(abs) tries the exact file, then the extensions of Module._extensions
WithExt(p, ext) == IF p = <<>> THEN <<>> ELSE Append(Dirname(p), p[Len(p)] \o ext)

\* ------------------------------------------------------- nodes and edges
\* codeSnippet: has = the node carries one; sql = sqlRegex matches it; prisma = the
\* <<table, op>> matches of prismaRegex; define / tablename = the names captured by
\* seqDefine / saTable; calls = the normalized paths of the URLs analyzeAPICalls extracts;
\* dependsOn / refs = the type.name tokens analyzeTerraform finds in depends_on lists /
\* anywhere in the snippet.  For the CodeQualityAnalyzer: code = the elements of the text
\* its loop scan reads; debt = per line, the kinds of debt comment found on it, in the
\* order of the four checks; blocks = the line counts of the /* */ blocks of 100
\* characters or more; blocking = the matches of the blocking-call patterns, in match
\* order; smells / anomalies = the kinds whose condition holds, in the order of the
\* checks; validations / includes / migrations = the normalized matches of the
\* repeated-code patterns; addresses = the number of matches of the address pattern
NoSnippet ==
  [has |-> FALSE, sql |-> FALSE, prisma |-> <<>>, define |-> <<>>, tablename |-> <<>>,
   calls |-> <<>>, dependsOn |-> <<>>, refs |-> <<>>,
   code |-> <<>>, debt |-> <<>>, blocks |-> <<>>, blocking |-> <<>>, smells |-> <<>>,
   anomalies |-> <<>>, validations |-> <<>>, includes |-> <<>>, migrations |-> <<>>,
   addresses |-> 0]
PlainSnippet == [NoSnippet EXCEPT !.has = TRUE]

NoMeta ==
  [platform |-> "", resourceKind |-> "", kind |-> "", httpMethod |-> "",
   labels |-> {}, selectors |-> {}, images |-> <<>>, resources |-> <<>>,
   resourceType |-> "", resourceName |-> "", source |-> <<>>, type |-> ""]

MkNode(id, type, label, filePath, language, snippet, meta) ==
  [id |-> id, type |-> type, label |-> label, filePath |-> filePath,
   language |-> language, codeSnippet |-> snippet, metadata |-> meta]

MkEdge(sourceId, targetId, type) == [sourceId |-> sourceId, targetId |-> targetId, type |-> type]

\* createHash('sha1').update(`file:${filePath}`)
FileId(filePath) == <<"file">> \o filePath
Raw(spec) == <<"raw:">> \o spec
IsRaw(id) == id # <<>> /\ id[1] = "raw:"

\* the File node every strategy pushes: label is filePath.split('/').pop()
FileNode(filePath, language) ==
  MkNode(FileId(filePath), "File", filePath[Len(filePath)], filePath, language, NoSnippet, NoMeta)

EmptyResult == [nodes |-> <<>>, edges |-> <<>>]

\* ------------------------------------------------------------- strategies
\* A source text is the record of the constructs the strategy's queries and regular
\* expressions capture from it, in match order.

\* api-route:${method}:${routePath}:${filePath}
RouteId(method, route, filePath) == <<"api-route", method, route>> \o filePath

JavaScriptStrategy(text, filePath) ==
  LET fileId == FileId(filePath)
      fns == [i \in 1..Len(text.funcs) |->
                MkNode(<<"function", text.funcs[i].name>> \o filePath, "Function",
                       text.funcs[i].name, filePath, "JavaScript", text.funcs[i].snippet, NoMeta)]
      routes == [i \in 1..Len(text.routes) |->
                MkNode(RouteId(text.routes[i].method, text.routes[i].path, filePath), "APIRoute",
                       text.routes[i].path, filePath, "JavaScript", NoSnippet,
                       [NoMeta EXCEPT !.httpMethod = text.routes[i].method])]
      imports == [i \in 1..Len(text.imports) |-> MkEdge(fileId, Raw(text.imports[i]), "IMPORTS")]
  IN  [nodes |-> fns \o <<FileNode(filePath, "JavaScript")>> \o routes, edges |-> imports]

\* TypeScriptStrategy.normalizeApiPath(filePath, 'app/api'): the path below app/api
\* without the trailing /route.ts ('/api' when app/api/ is not in the path)
NormalizeApiPath(filePath) ==
  LET at == {i \in 1..Len(filePath) - 2 : filePath[i] = "app" /\ filePath[i + 1] = "api"}
  IN  IF at = {} THEN <<"api">>
      ELSE LET idx == CHOOSE i \in at : \A j \in at : i <= j
               rest == SubSeq(filePath, idx + 2, Len(filePath))
           IN  IF rest[Len(rest)] = "route.ts" THEN SubSeq(rest, 1, Len(rest) - 1) ELSE rest

\* the label spelling a sequence of path segments
RouteLabel(segs) ==
  CASE segs = <<"users">> -> "/users"
    [] segs = <<"items">> -> "/items"
    [] OTHER -> "/"

\* /\bapp\/api\//.test(filePath) && /\/route\.(ts|tsx|js|jsx)$/.test(filePath)
IsAppRouterFile(filePath) ==
  /\ \E i \in 1..Len(filePath) - 2 : filePath[i] = "app" /\ filePath[i + 1] = "api"
  /\ Len(filePath) >= 2 /\ filePath[Len(filePath)] = "route.ts"

\* Array.from(new Set(methods)): the first occurrences, in order
Uniq(s) == SelectSeq([i \in 1..Len(s) |-> IF \E j \in 1..i - 1 : s[j] = s[i] THEN "" ELSE s[i]],
                     LAMBDA x : x # "")

\* TypeScriptStrategy.analyze with a language, on a text without classes, Express calls
\* and NestJS decorators: the function declarations, the File node, the imports, and for
\* an App Router file one APIRoute per distinct exported HTTP method handler ('ANY' when
\* none is exported).  text.exported lists the exported handlers among text.funcs.
TypeScriptStrategy(text, filePath) ==
  LET fileId == FileId(filePath)
      fns == [i \in 1..Len(text.funcs) |->
                MkNode(<<"function", text.funcs[i].name>> \o filePath, "Function",
                       text.funcs[i].name, filePath, "TypeScript", text.funcs[i].snippet, NoMeta)]
      imports == [i \in 1..Len(text.imports) |-> MkEdge(fileId, Raw(text.imports[i]), "IMPORTS")]
      route == RouteLabel(NormalizeApiPath(filePath))
      uniq == IF text.exported # <<>> THEN Uniq(text.exported) ELSE <<"ANY">>
      app == IF IsAppRouterFile(filePath)
             THEN [i \in 1..Len(uniq) |->
                     MkNode(RouteId(uniq[i], route, filePath), "APIRoute", route, filePath,
                            "TypeScript", NoSnippet, [NoMeta EXCEPT !.httpMethod = uniq[i]])]
             ELSE <<>>
  IN  [nodes |-> fns \o <<FileNode(filePath, "TypeScript")>> \o app, edges |-> imports]

GoStrategy(text, filePath) ==
  LET fns == [i \in 1..Len(text.funcs) |->
                MkNode(<<"function", text.funcs[i].name>> \o filePath, "Function",
                       text.funcs[i].name, filePath, "Go", text.funcs[i].snippet, NoMeta)]
      methods == [i \in 1..Len(text.methods) |->
                MkNode(<<"method", text.methods[i].name>> \o filePath, "Function",
                       text.methods[i].name, filePath, "Go", text.methods[i].snippet,
                       [NoMeta EXCEPT !.type = "method"])]
  IN  [nodes |-> fns \o methods \o <<FileNode(filePath, "Go")>>, edges |-> <<>>]

\* TerraformStrategy.analyze for a text without provider blocks
TerraformStrategy(text, filePath) ==
  LET res == [i \in 1..Len(text.resources) |->
                LET r == text.resources[i] IN
                MkNode(<<"tf-resource", r.type, r.name>> \o filePath \o <<r.index>>, "Component",
                       r.label, filePath, "Terraform", NoSnippet,
                       [NoMeta EXCEPT !.kind = "resource", !.resourceType = r.type,
                                      !.resourceName = r.name])]
      ModId(m) == <<"tf-module", m.name>> \o filePath \o <<m.index>>
      mods == [i \in 1..Len(text.modules) |->
                LET m == text.modules[i] IN
                MkNode(ModId(m), "Component", m.label, filePath, "Terraform", NoSnippet,
                       [NoMeta EXCEPT !.kind = "module", !.source = m.source])]
      local == SelectSeq(text.modules, LAMBDA m : m.local)
      refs == [i \in 1..Len(local) |-> MkEdge(ModId(local[i]), Raw(local[i].source), "REFERENCES")]
  IN  [nodes |-> res \o mods \o <<FileNode(filePath, "Terraform")>>, edges |-> refs]

SQLStrategy(text, filePath, language) ==
  IF ~language THEN EmptyResult
  ELSE
  LET tables == [i \in 1..Len(text.tables) |->
                MkNode(<<"table", text.tables[i]>> \o filePath, "Class", text.tables[i],
                       filePath, "SQL", PlainSnippet, NoMeta)]
      fks == [i \in 1..Len(text.fks) |-> MkEdge(FileId(filePath), Raw(<<text.fks[i]>>), "REFERENCES")]
  IN  [nodes |-> tables \o <<FileNode(filePath, "SQL")>>, edges |-> fks]

\* YAMLStrategy.analyze on a text that is not OpenAPI: per document the Helm Chart node
\* when the file is a chart (a `name:` in the text and a path ending in Chart.yaml), then a
\* Component when the document has a kind; then the File node.  The platform is Kubernetes
\* by content, then Helm for a chart or a path through templates/, then Kustomize for a
\* kustomization (by content or by file name), which also gives the resources list.
YAMLStrategy(text, filePath) ==
  LET isHelmChart == text.hasName /\ filePath[Len(filePath)] = "Chart.yaml"
      isHelmTemplate == \E i \in 1..(Len(filePath) - 1) : filePath[i] = "templates"
      isKustomize == text.isKustomize \/ filePath[Len(filePath)] = "kustomization.yaml"
      chart == MkNode(<<"helm-chart">> \o filePath, "Component", "Helm Chart", filePath,
                      "YAML", PlainSnippet, [NoMeta EXCEPT !.platform = "Helm"])
      Comp(d) ==
        MkNode(<<"kind", d.kind>> \o filePath \o <<d.length>>, "Component", d.kind,
               filePath, "YAML", PlainSnippet,
               [NoMeta EXCEPT !.resourceKind = d.kind,
                              !.platform = IF isKustomize THEN "Kustomize"
                                           ELSE IF isHelmChart \/ isHelmTemplate THEN "Helm"
                                           ELSE IF text.isK8s THEN "Kubernetes"
                                           ELSE "YAML",
                              !.labels = d.labels, !.selectors = d.selectors,
                              !.images = d.images,
                              !.resources = IF isKustomize THEN d.resources ELSE <<>>])
      OfDoc(d) == (IF isHelmChart THEN <<chart>> ELSE <<>>) \o
                  (IF d.kind # "" THEN <<Comp(d)>> ELSE <<>>)
  IN  [nodes |-> Flatten([i \in 1..Len(text.docs) |-> OfDoc(text.docs[i])])
                 \o <<FileNode(filePath, "YAML")>>,
       edges |-> <<>>]

\* isLaravelRouteMethod
LaravelRouteMethods == {"index", "show", "create", "store", "edit", "update", "destroy"}

\* detectHttpMethod
DetectHttpMethod(methodName) ==
  CASE methodName = "store" -> "POST"
    [] methodName = "update" -> "PUT"
    [] methodName = "destroy" -> "DELETE"
    [] OTHER -> "GET"

\* className.includes('Controller'), on the class names of the corpus
IsControllerName(className) == className \in {"PostsController", "UsersController"}

\* PHPStrategy.analyze for a file that is not routes/api.php or routes/web.php and holds
\* none of the dbPatterns: classes, methods (a Laravel route method is an APIRoute whose
\* id and label are made of the method name alone), functions, the File node, and an
\* IMPORTS edge per use declaration
PHPStrategy(text, filePath) ==
  LET classes == [i \in 1..Len(text.classes) |->
                MkNode(<<"class", text.classes[i]>> \o filePath,
                       IF IsControllerName(text.classes[i]) /\ text.isLaravel
                       THEN "Component" ELSE "Class",
                       text.classes[i], filePath, "PHP", PlainSnippet, NoMeta)]
      methods == [i \in 1..Len(text.methods) |->
                LET methodName == text.methods[i].name
                    isRoute == text.isLaravel /\ methodName \in LaravelRouteMethods IN
                MkNode(<<"method", methodName>> \o filePath,
                       IF isRoute THEN "APIRoute" ELSE "Function",
                       methodName, filePath, "PHP", text.methods[i].snippet,
                       IF isRoute THEN [NoMeta EXCEPT !.httpMethod = DetectHttpMethod(methodName)]
                       ELSE NoMeta)]
      funcs == [i \in 1..Len(text.funcs) |->
                MkNode(<<"function", text.funcs[i].name>> \o filePath, "Function",
                       text.funcs[i].name, filePath, "PHP", text.funcs[i].snippet, NoMeta)]
      uses == [i \in 1..Len(text.uses) |-> MkEdge(FileId(filePath), Raw(text.uses[i]), "IMPORTS")]
  IN  [nodes |-> classes \o methods \o funcs \o <<FileNode(filePath, "PHP")>>, edges |-> uses]

\* ------------------------------------------------------------------ corpus
FileA == <<"p", "a.js">>
FileB == <<"p", "b.js">>
FileG == <<"p", "m.go">>
FileT == <<"p", "main.tf">>
FileS == <<"p", "s.sql">>
FileK == <<"p", "k.yaml">>
FileQ == <<"p", "q.graphql">>
FileP == <<"p", "c.php">>
FileR == <<"p", "app", "api", "users", "route.ts">>
FileU == <<"p", "kustomization.yaml">>
\* two Helm charts: the chart file, a template and the values of c1, a template of c2
FileC == <<"p", "c1", "Chart.yaml">>
FileD == <<"p", "c1", "templates", "d.yaml">>
FileE == <<"p", "c2", "templates", "d.yaml">>
FileV == <<"p", "c1", "values.yaml">>
HelmFiles == {FileC, FileD, FileE, FileV}
Files == {FileA, FileB, FileG, FileT, FileS, FileK, FileQ, FileP, FileR, FileU}

\* what fs.existsSync answers
Disk == Files

Fn(name, snippet) == [name |-> name, snippet |-> snippet]
Route(method, path) == [method |-> method, path |-> path]
Doc(kind, labels, selectors, images, length) ==
  [kind |-> kind, labels |-> labels, selectors |-> selectors, images |-> images,
   length |-> length, resources |-> <<>>]
\* a `kind: Kustomization` document with the entries of its resources list
KustomizationDoc(resources, length) ==
  [Doc("Kustomization", {}, {}, <<>>, length) EXCEPT !.resources = resources]

\* the source texts a file of the corpus may hold
Texts(f) ==
  CASE f = FileA ->
        { [funcs |-> <<Fn("load", [PlainSnippet EXCEPT !.sql = TRUE, !.calls = <<"/users">>])>>,
           imports |-> << <<".", "b">>, <<"lodash">> >>,
           routes |-> <<Route("GET", "/users"), Route("POST", "/users")>>],
          [funcs |-> <<Fn("save", [PlainSnippet EXCEPT !.prisma = << <<"user", "create">> >>,
                                                      !.calls = <<"/users", "/items">>])>>,
           imports |-> << <<".", "b">> >>,
           routes |-> <<Route("GET", "/users"), Route("GET", "/users")>>] }
    [] f = FileB ->
        { [funcs |-> <<Fn("load", PlainSnippet)>>, imports |-> <<>>,
           routes |-> <<Route("GET", "/users")>>],
          [funcs |-> <<Fn("save", [PlainSnippet EXCEPT !.define = <<"users">>,
                                                      !.tablename = <<"orders", "users">>])>>,
           imports |-> <<>>, routes |-> <<>>] }
    [] f = FileG ->
        { [funcs |-> <<Fn("main", [PlainSnippet EXCEPT !.sql = TRUE])>>,
           methods |-> <<Fn("Get", PlainSnippet), Fn("Get", [PlainSnippet EXCEPT !.sql = TRUE])>>] }
    [] f = FileT ->
        { [resources |-> <<[type |-> "aws_s3_bucket", name |-> "site",
                            label |-> "aws_s3_bucket.site", index |-> "@1",
                            dependsOn |-> <<>>, refs |-> <<>>],
                           [type |-> "aws_s3_bucket", name |-> "log",
                            label |-> "aws_s3_bucket.log", index |-> "@3",
                            dependsOn |-> <<"aws_s3_bucket.site">>,
                            refs |-> <<"aws_s3_bucket.site">>]>>,
           modules |-> <<[name |-> "mod", label |-> "module:mod", source |-> <<".", "modules", "mod">>,
                          local |-> TRUE, index |-> "@2"]>>],
          [resources |-> <<>>,
           modules |-> <<[name |-> "mod", label |-> "module:mod", source |-> <<".", "main.tf">>,
                          local |-> TRUE, index |-> "@1"]>>] }
    [] f = FileS ->
        { [tables |-> <<"users">>, fks |-> <<"users">>] }
    [] f = FileK ->
        { [isK8s |-> TRUE, isKustomize |-> FALSE, hasName |-> TRUE,
           docs |-> <<Doc("Deployment", {<<"app", "web">>}, {}, <<"nginx", "nginx">>, "#1"),
                      Doc("Deployment", {<<"app", "api">>}, {}, <<"nginx">>, "#2"),
                      Doc("Service", {}, {<<"app", "web">>}, <<>>, "#3")>>],
          [isK8s |-> TRUE, isKustomize |-> FALSE, hasName |-> TRUE,
           docs |-> <<Doc("Pod", {<<"app", "web">>, <<"tier", "db">>}, {}, <<>>, "#1"),
                      Doc("Deployment", {<<"app", "web">>}, {}, <<>>, "#1"),
                      Doc("Deployment", {<<"app", "api">>}, {}, <<>>, "#1"),
                      Doc("Service", {}, {}, <<>>, "#2"),
                      Doc("Service", {}, {<<"app", "web">>}, <<>>, "#3"),
                      Doc("Service", {}, {<<"app", "web">>, <<"tier", "db">>}, <<>>, "#4")>>] }
    [] f = FileQ ->
        { [sdl |-> TRUE] }
    [] f = FileP ->
        { [isLaravel |-> TRUE, classes |-> <<"UsersController", "PostsController">>,
           methods |-> <<Fn("index", [PlainSnippet EXCEPT !.prisma = << <<"user", "findMany">> >>]),
                         Fn("index", PlainSnippet)>>,
           funcs |-> <<>>, uses |-> << <<"App">> >>],
          [isLaravel |-> FALSE, classes |-> <<"UsersController">>,
           methods |-> <<Fn("index", PlainSnippet), Fn("show", PlainSnippet)>>,
           funcs |-> <<Fn("load", [PlainSnippet EXCEPT !.sql = TRUE])>>, uses |-> <<>>] }
    [] f = FileU ->
        { [isK8s |-> TRUE, isKustomize |-> FALSE, hasName |-> TRUE,
           docs |-> <<KustomizationDoc(<< <<"k.yaml">>, <<"a.js">> >>, "#1")>>],
          [isK8s |-> TRUE, isKustomize |-> FALSE, hasName |-> TRUE,
           docs |-> <<KustomizationDoc(<< <<"k">>, <<"..", "x", "k.yaml">>, <<"b">> >>, "#2")>>] }
    [] f = FileR ->
        { [funcs |-> <<Fn("GET", PlainSnippet), Fn("POST", PlainSnippet)>>, imports |-> <<>>,
           exported |-> <<"GET", "POST">>] }
    [] f = FileC ->
        { [isK8s |-> FALSE, isKustomize |-> FALSE, hasName |-> TRUE,
           docs |-> <<Doc("", {}, {}, <<>>, "#1")>>] }
    [] f = FileD ->
        { [isK8s |-> TRUE, isKustomize |-> FALSE, hasName |-> TRUE,
           docs |-> <<Doc("Deployment", {<<"app", "web">>}, {}, <<>>, "#1")>>] }
    [] f = FileE ->
        { [isK8s |-> TRUE, isKustomize |-> FALSE, hasName |-> TRUE,
           docs |-> <<Doc("Service", {}, {<<"app", "web">>}, <<>>, "#1")>>] }
    [] f = FileV ->
        { [isK8s |-> FALSE, isKustomize |-> FALSE, hasName |-> FALSE,
           docs |-> <<Doc("", {}, {}, <<>>, "#1")>>] }

\* the text an unlisted file is given (it is never read)
DefaultText(f) == CHOOSE t \in Texts(f) : TRUE

\* the assignments of a text to every file in which the files outside `listed` hold
\* their default text
RECURSIVE Contents(_, _)
Contents(fs, listed) ==
  IF fs = {} THEN {<<>>}
  ELSE LET f == CHOOSE x \in fs : TRUE
           rest == Contents(fs \ {f}, listed)
           choices == IF f \in listed THEN Texts(f) ELSE {DefaultText(f)}
       IN  {[x \in DOMAIN c \cup {f} |-> IF x = f THEN t ELSE c[x]] : c \in rest, t \in choices}

\* --------------------------------------------------------------- analyzeFile
\* Orchestrator.getLanguageFromExtension
LanguageFromExtension(filePath) ==
  LET extension == Extname(filePath) IN
  CASE extension = ".js" -> "JavaScript"
    [] extension = ".go" -> "Go"
    [] extension = ".tf" -> "Terraform"
    [] extension = ".sql" -> "SQL"
    [] extension = ".yaml" -> "YAML"
    [] extension = ".graphql" -> "GraphQL"
    [] extension = ".php" -> "PHP"
    [] extension = ".ts" -> "TypeScript"
    [] OTHER -> "undefined"

\* ParserFactory.getParserForFile: TRUE when a grammar is loaded for the extension
GetParserForFile(filePath) ==
  Extname(filePath) \in {".js", ".go", ".sql", ".yaml", ".php", ".ts"}

NoResult == [undefined |-> TRUE]

\* an exception leaving analyzeFile
Thrown == [thrown |-> TRUE]

\* `config.maxFileSizeKB ?? Infinity`: a limit above every file size
Infinity == 1000

\* What the run meets outside its source texts, fixed for the whole run:
\*   onlyFiles      TRUE when config.onlyFiles gives the file list, FALSE for glob
\*   maxFileSizeKB  the configured limit (Infinity when absent)
\*   sizeKB         st.size / 1024 of each file
\*   fault          per file: "ok"; "missing" (statSync and readFileSync throw);
\*                  "unreadable" (statSync succeeds, readFileSync throws);
\*                  "noparser" (parser.setLanguage rejects the grammar of the file's
\*                  extension: getParserForFile returns undefined);
\*                  "parsethrows" (parser.parse throws on the file's content)
VARIABLE env

FaultKinds == {"missing", "unreadable", "noparser", "parsethrows"}

\* the environment in which every file is small, readable and parsed
Benign ==
  [onlyFiles |-> TRUE, maxFileSizeKB |-> Infinity,
   sizeKB |-> [f \in Files \cup HelmFiles |-> 1], fault |-> [f \in Files \cup HelmFiles |-> "ok"]]

\* readFileSync(filePath, 'utf8') throws
ReadThrows(filePath) == env.fault[filePath] \in {"missing", "unreadable"}

\* getParserForFile under the run's grammars: the grammar cache is per extension
ParserFor(filePath) ==
  /\ GetParserForFile(filePath)
  /\ \A f \in Files : env.fault[f] = "noparser" => Extname(f) # Extname(filePath)

\* `languageObj` of analyzeFile: defined only when a parser exists and parse returned
LanguageObj(filePath) == ParserFor(filePath) /\ env.fault[filePath] # "parsethrows"

\* strategy.analyze(ast, filePath, languageObj).  JavaScriptStrategy, GoStrategy and
\* PHPStrategy open with `new Query(language, ...)`, which throws on an undefined
\* language; SQLStrategy and TypeScriptStrategy return an empty result; the Terraform and
\* YAML strategies read
\* ast.rootNode.text only
StrategyAnalyze(languageName, text, filePath, languageObj) ==
  CASE languageName = "JavaScript" ->
         IF languageObj THEN JavaScriptStrategy(text, filePath) ELSE Thrown
    [] languageName = "Go" -> IF languageObj THEN GoStrategy(text, filePath) ELSE Thrown
    [] languageName = "Terraform" -> TerraformStrategy(text, filePath)
    [] languageName = "SQL" -> SQLStrategy(text, filePath, languageObj)
    [] languageName = "YAML" -> YAMLStrategy(text, filePath)
    [] languageName = "PHP" -> IF languageObj THEN PHPStrategy(text, filePath) ELSE Thrown
    [] languageName = "TypeScript" ->
         IF languageObj THEN TypeScriptStrategy(text, filePath) ELSE EmptyResult
    [] OTHER -> NoResult

\* Orchestrator.analyzeFile: read the file, parse it (a stub tree when there is no parser
\* or parse throws), and apply the strategy registered for the file's language;
\* undefined when no language or strategy is found (the strategy map holds no GraphQL
\* strategy).  Neither the read nor the strategy call is inside a try block.
AnalyzeFile(filePath, text) ==
  IF ReadThrows(filePath) THEN Thrown
  ELSE StrategyAnalyze(LanguageFromExtension(filePath), text, filePath, LanguageObj(filePath))

\* ------------------------------------------------------ InteractionAnalyzer
\* a code map is [nodes |-> sequence of nodes, edges |-> sequence of edges]

Undefined == <<>>

\* require.resolve(abs): the file itself, else with the extensions .js, .json, .node;
\* throws (undefined after the catch) when none exists
RequireResolve(abs) ==
  LET candidates == <<abs, WithExt(abs, ".js"), WithExt(abs, ".json"), WithExt(abs, ".node")>>
      k == FindIndex(candidates, LAMBDA c : c \in Disk)
  IN  IF k = 0 THEN Undefined ELSE candidates[k]

\* the language-aware branch of resolveImportEdges (no tsconfig paths, virtualenv,
\* Java source root or go.mod in the corpus: those resolvers find nothing)
ResolveTarget(sourceLang, sourceDir, specifier) ==
  IF sourceLang \in {"JavaScript", "TypeScript"}
  THEN RequireResolve(PathResolve(sourceDir, specifier))
  ELSE Undefined

\* a lookup that indexes every node by its path, whatever its type
NodeByPath(nodes, p) ==
  LET idx == {i \in 1..Len(nodes) : nodes[i].filePath = p}
  IN  IF idx = {} THEN 0 ELSE CHOOSE i \in idx : \A j \in idx : j <= i

\* fileNodeByPath.get(p): Map.set keeps the last File node of a path; 0 if none
FileNodeByPath(nodes, p) ==
  LET idx == {i \in 1..Len(nodes) : nodes[i].type = "File" /\ nodes[i].filePath = p}
  IN  IF idx = {} THEN 0 ELSE CHOOSE i \in idx : \A j \in idx : j <= i

ResolveImportEdge(nodes, edge) ==
  IF edge.type # "IMPORTS" THEN edge
  ELSE
  LET si == FindIndex(nodes, LAMBDA n : n.id = edge.sourceId) IN
  IF si = 0 THEN edge
  ELSE
  LET sourceNode == nodes[si]
      targetPath == ResolveTarget(sourceNode.language, Dirname(sourceNode.filePath),
                                  Tail(edge.targetId))
      ti == FileNodeByPath(nodes, targetPath)
  IN  IF targetPath = Undefined \/ ti = 0 THEN edge
      ELSE [edge EXCEPT !.targetId = nodes[ti].id]

\* a resolution that returns the filtered import edges as the edges of the map
ResolveImportEdgesFiltered(codeMap) ==
  [codeMap EXCEPT !.edges = [i \in 1..Len(SelectSeq(codeMap.edges, LAMBDA e : e.type = "IMPORTS")) |->
                               ResolveImportEdge(codeMap.nodes,
                                 SelectSeq(codeMap.edges, LAMBDA e : e.type = "IMPORTS")[i])]]

ResolveImportEdges(codeMap) ==
  [codeMap EXCEPT !.edges = [i \in 1..Len(codeMap.edges) |->
                               ResolveImportEdge(codeMap.nodes, codeMap.edges[i])]]

\* a push without the find guard
PushNode(nodes, node) == Append(nodes, node)

\* `if (!codeMap.nodes.find(n => n.id === id)) codeMap.nodes.push(node)`
EnsureNode(nodes, node) ==
  IF \E i \in 1..Len(nodes) : nodes[i].id = node.id THEN nodes ELSE Append(nodes, node)

SyntheticNode(id, label, kind) ==
  MkNode(id, "Component", label, <<>>, "N/A", NoSnippet, [NoMeta EXCEPT !.kind = kind])

DbNodeId == <<"db:generic">>
TableId(name) == <<"table:", name>>
ImageId(image) == <<"image:", image>>
GraphQLSchemaId == <<"graphql:schema">>

\* analyzeDBLineage: the for-of loop over codeMap.nodes, from index i on
RECURSIVE DBLineageFrom(_, _)
DBLineageFrom(codeMap, i) ==
  IF i > Len(codeMap.nodes) THEN codeMap
  ELSE
  LET node == codeMap.nodes[i] IN
  IF node.type = "Function" /\ node.codeSnippet.has /\ node.codeSnippet.sql
  THEN DBLineageFrom(
         [nodes |-> EnsureNode(codeMap.nodes, SyntheticNode(DbNodeId, "Database", "database")),
          edges |-> Append(codeMap.edges, MkEdge(node.id, DbNodeId, "DB_QUERY"))], i + 1)
  ELSE DBLineageFrom(codeMap, i + 1)

AnalyzeDBLineage(codeMap) == DBLineageFrom(codeMap, 1)

\* ensureTable(name) of analyzeORM, on the nodes array
EnsureTable(nodes, name) == EnsureNode(nodes, SyntheticNode(TableId(name), name, "table"))

RECURSIVE EnsureTables(_, _)
EnsureTables(nodes, names) ==
  IF names = <<>> THEN nodes ELSE EnsureTables(EnsureTable(nodes, Head(names)), Tail(names))

\* /find|select/i.test(op) ? 'READS_FROM' : /create|update|delete/i.test(op) ? 'WRITES_TO' : 'REFERENCES'
PrismaEdgeType(op) ==
  IF op \in {"findMany", "findUnique", "findFirst"} THEN "READS_FROM"
  ELSE IF op \in {"create", "update", "delete"} THEN "WRITES_TO"
  ELSE "REFERENCES"

\* the prismaRegex loop of one node
RECURSIVE PrismaMatches(_, _, _)
PrismaMatches(codeMap, sourceId, matches) ==
  IF matches = <<>> THEN codeMap
  ELSE PrismaMatches(
         [nodes |-> EnsureTable(codeMap.nodes, Head(matches)[1]),
          edges |-> Append(codeMap.edges,
                           MkEdge(sourceId, TableId(Head(matches)[1]), PrismaEdgeType(Head(matches)[2])))],
         sourceId, Tail(matches))

\* analyzeORM: the for-of loop over codeMap.nodes, from index i on
RECURSIVE ORMFrom(_, _)
ORMFrom(codeMap, i) ==
  IF i > Len(codeMap.nodes) THEN codeMap
  ELSE
  LET node == codeMap.nodes[i]
      code == node.codeSnippet
      afterPrisma == PrismaMatches(codeMap, node.id, code.prisma)
      afterDefine == EnsureTables(afterPrisma.nodes, code.define)
      afterSa == EnsureTables(afterDefine, code.tablename)
  IN  ORMFrom([nodes |-> afterSa, edges |-> afterPrisma.edges], i + 1)

AnalyzeORM(codeMap) == ORMFrom(codeMap, 1)

\* Object.entries(selectors).every(([k,v]) => labels[k] === v)
\* a filter that accepts a target as soon as one selector entry is among its labels
SelectorMatchesSome(selectors, labels) == \E kv \in selectors : kv \in labels

\* Object.entries(selectors).every(([k,v]) => labels[k] === v)
SelectorMatches(selectors, labels) == \A kv \in selectors : kv \in labels

\* the image loop of one Deployment
RECURSIVE ImageLinks(_, _, _)
ImageLinks(codeMap, sourceId, images) ==
  IF images = <<>> THEN codeMap
  ELSE ImageLinks(
         [nodes |-> EnsureNode(codeMap.nodes,
                               SyntheticNode(ImageId(Head(images)), Head(images), "container-image")),
          edges |-> Append(codeMap.edges, MkEdge(sourceId, ImageId(Head(images)), "REFERENCES"))],
         sourceId, Tail(images))

RECURSIVE DeploymentImages(_, _)
DeploymentImages(codeMap, deployments) ==
  IF deployments = <<>> THEN codeMap
  ELSE DeploymentImages(ImageLinks(codeMap, Head(deployments).id, Head(deployments).metadata.images),
                        Tail(deployments))

AnalyzeKubernetes(codeMap) ==
  LET k8sNodes == SelectSeq(codeMap.nodes,
                    LAMBDA n : n.language = "YAML" /\ n.metadata.platform = "Kubernetes")
      services == SelectSeq(k8sNodes, LAMBDA n : n.metadata.resourceKind = "Service")
      deployments == SelectSeq(k8sNodes, LAMBDA n : n.metadata.resourceKind = "Deployment")
      pods == SelectSeq(k8sNodes, LAMBDA n : n.metadata.resourceKind = "Pod")
      Links(svc) ==
        IF svc.metadata.selectors = {} THEN <<>>
        ELSE LET matches == SelectSeq(deployments \o pods,
                              LAMBDA t : SelectorMatches(svc.metadata.selectors, t.metadata.labels))
             IN  [j \in 1..Len(matches) |-> MkEdge(svc.id, matches[j].id, "REFERENCES")]
      svcEdges == Flatten([i \in 1..Len(services) |-> Links(services[i])])
  IN  DeploymentImages([codeMap EXCEPT !.edges = codeMap.edges \o svcEdges], deployments)

AnalyzeGraphQLSDL(codeMap) ==
  LET sdlFiles == SelectSeq(codeMap.nodes, LAMBDA n : Extname(n.filePath) \in {".graphql", ".gql"})
  IN  IF sdlFiles = <<>> THEN codeMap
      ELSE [nodes |-> EnsureNode(codeMap.nodes,
                                 SyntheticNode(GraphQLSchemaId, "GraphQL Schema", "graphql")),
            edges |-> codeMap.edges \o
                      [i \in 1..Len(sdlFiles) |-> MkEdge(sdlFiles[i].id, GraphQLSchemaId, "REFERENCES")]]

\* the characters of the route labels and call URLs of the corpus
Chars(str) ==
  CASE str = "/users" -> <<"/", "u", "s", "e", "r", "s">>
    [] str = "/items" -> <<"/", "i", "t", "e", "m", "s">>
    [] OTHER -> <<"/">>

\* the pathname of new URL(p, 'http://placeholder') for a p made of path characters
\* without '?', '#', '\' and without '.' or '..' segments: p is resolved against the root
\* and '{' and '}' are percent-encoded (they are in the URL path percent-encode set)
UrlPathname(p) ==
  LET abs == IF p # <<>> /\ p[1] = "/" THEN p ELSE <<"/">> \o p
  IN  Flatten([i \in 1..Len(abs) |->
                 CASE abs[i] = "{" -> <<"%", "7", "B">>
                   [] abs[i] = "}" -> <<"%", "7", "D">>
                   [] OTHER -> <<abs[i]>>])

\* InteractionAnalyzer.normalizePath: url.pathname.replace(/\/$/, '')
NormalizePath(p) ==
  LET pathname == UrlPathname(p)
  IN  IF pathname[Len(pathname)] = "/" THEN SubSeq(pathname, 1, Len(pathname) - 1) ELSE pathname

\* the length of the longest prefix of s without a slash
RECURSIVE NonSlashRun(_)
NonSlashRun(s) == IF s = <<>> \/ Head(s) = "/" THEN 0 ELSE 1 + NonSlashRun(Tail(s))

\* .replace(/:[^/]+/g, '[^/]+'): the replacement text is kept as the one token "[^/]+"
RECURSIVE ReplaceColonParams(_)
ReplaceColonParams(s) ==
  IF s = <<>> THEN <<>>
  ELSE IF Head(s) = ":" /\ NonSlashRun(Tail(s)) >= 1
       THEN <<"[^/]+">> \o ReplaceColonParams(SubSeq(s, 2 + NonSlashRun(Tail(s)), Len(s)))
       ELSE <<Head(s)>> \o ReplaceColonParams(Tail(s))

\* .replace(/\{[^/]+\}/g, '[^/]+'): from a '{' to the last '}' before the next slash
RECURSIVE ReplaceBraceParams(_)
ReplaceBraceParams(s) ==
  IF s = <<>> THEN <<>>
  ELSE LET run == NonSlashRun(s)
           closing == {k \in 3..run : s[k] = "}"}
       IN  IF Head(s) = "{" /\ closing # {}
           THEN LET k == CHOOSE c \in closing : \A d \in closing : d <= c
                IN  <<"[^/]+">> \o ReplaceBraceParams(SubSeq(s, k + 1, Len(s)))
           ELSE <<Head(s)>> \o ReplaceBraceParams(Tail(s))

\* InteractionAnalyzer.routeToRegex: the source of the pattern between ^ and $
RouteToRegex(route) == ReplaceBraceParams(ReplaceColonParams(NormalizePath(route)))

\* new RegExp('^' + source + '$').test(str): "[^/]+" takes one or more characters other
\* than a slash, an unescaped '.' takes any one character, every other character of the
\* strings considered stands for itself
RECURSIVE RegexTest(_, _)
RegexTest(source, str) ==
  IF source = <<>> THEN str = <<>>
  ELSE CASE Head(source) = "[^/]+" ->
              \E k \in 1..NonSlashRun(str) :
                 RegexTest(Tail(source), SubSeq(str, k + 1, Len(str)))
         [] Head(source) = "." -> str # <<>> /\ RegexTest(Tail(source), Tail(str))
         [] OTHER -> str # <<>> /\ Head(str) = Head(source)
                     /\ RegexTest(Tail(source), Tail(str))

\* backendPatterns' regex.test(pathOnly) for a route label and a call URL
RouteMatches(label, path) ==
  RegexTest(RouteToRegex(Chars(label)), NormalizePath(Chars(path)))

\* String.prototype.startsWith on two names of the corpus, for the names used as roots
NameStartsWith(name, start) ==
  \/ name = start
  \/ start = "a" /\ name \in {"a.js", "api", "app"}
  \/ start = "b" /\ name = "b.js"

\* String.prototype.startsWith on the strings of two absolute paths: the root is resolved
\* without a trailing slash, so its last name only has to start the name at that depth
StartsWith(p, prefix) ==
  \/ prefix = <<>>
  \/ /\ Len(prefix) <= Len(p)
     /\ SubSeq(p, 1, Len(prefix) - 1) = SubSeq(prefix, 1, Len(prefix) - 1)
     /\ NameStartsWith(p[Len(prefix)], prefix[Len(prefix)])

\* a synthesis that links a call to every backend route whose pattern matches
ApiCallEdgesEvery(nodes, rule) ==
  LET frontendNodes == SelectSeq(nodes,
                         LAMBDA n : n.type = "Function" /\ StartsWith(n.filePath, rule.frontend))
      backendRoutes == SelectSeq(nodes,
                         LAMBDA n : n.type = "APIRoute" /\ StartsWith(n.filePath, rule.backend))
      PushEdges(sourceId, url) ==
        LET matched == SelectSeq(backendRoutes, LAMBDA r : RouteMatches(r.label, url))
        IN  [k \in 1..Len(matched) |-> MkEdge(sourceId, matched[k].id, "API_CALL")]
      OfNode(fe) ==
        IF ~fe.codeSnippet.has THEN <<>>
        ELSE Flatten([j \in 1..Len(fe.codeSnippet.calls) |-> PushEdges(fe.id, fe.codeSnippet.calls[j])])
  IN  Flatten([i \in 1..Len(frontendNodes) |-> OfNode(frontendNodes[i])])

\* analyzeAPICalls for one rule: every extracted URL of every frontend Function gets an
\* API_CALL edge to the first backend route whose pattern matches
ApiCallEdges(nodes, rule) ==
  LET frontendNodes == SelectSeq(nodes,
                         LAMBDA n : n.type = "Function" /\ StartsWith(n.filePath, rule.frontend))
      backendRoutes == SelectSeq(nodes,
                         LAMBDA n : n.type = "APIRoute" /\ StartsWith(n.filePath, rule.backend))
      PushEdge(sourceId, url) ==
        LET k == FindIndex(backendRoutes, LAMBDA r : RouteMatches(r.label, url))
        IN  IF k = 0 THEN <<>> ELSE <<MkEdge(sourceId, backendRoutes[k].id, "API_CALL")>>
      OfNode(fe) ==
        IF ~fe.codeSnippet.has THEN <<>>
        ELSE Flatten([j \in 1..Len(fe.codeSnippet.calls) |-> PushEdge(fe.id, fe.codeSnippet.calls[j])])
  IN  Flatten([i \in 1..Len(frontendNodes) |-> OfNode(frontendNodes[i])])

RECURSIVE AnalyzeAPICalls(_, _)
AnalyzeAPICalls(codeMap, rules) ==
  IF rules = <<>> THEN codeMap
  ELSE IF Head(rules).type # "API_CALL" THEN AnalyzeAPICalls(codeMap, Tail(rules))
  ELSE AnalyzeAPICalls([codeMap EXCEPT !.edges = codeMap.edges \o ApiCallEdges(codeMap.nodes, Head(rules))],
                       Tail(rules))

\* /[.](ya?ml)$/i on the last segment of a resources entry
HasYamlExt(r) == r # <<>> /\ r[Len(r)] \in {"k.yaml", "kustomization.yaml"}

\* the Kustomize loop body of analyzeHelm for one resources entry r of node k:
\* the edge pushed, as a sequence of at most one edge
KustomizeLink(nodes, k, r) ==
  LET baseDir == Dirname(k.filePath)
      candidates == IF HasYamlExt(r) THEN <<r>>
                    ELSE <<WithExt(r, ".yaml"), WithExt(r, ".yml"), r>>
      Hit(c) == \E i \in 1..Len(nodes) : nodes[i].filePath = PathResolve(baseDir, c)
      ci == FindIndex(candidates, Hit)
      found ==
        IF ci # 0
        THEN LET p == PathResolve(baseDir, candidates[ci])
                 comps == SelectSeq(nodes, LAMBDA n : n.filePath = p /\ n.type = "Component")
                 di == FindIndex(comps, LAMBDA n : n.metadata.resourceKind = "Deployment")
             IN  IF comps # <<>> THEN (IF di # 0 THEN comps[di] ELSE comps[1])
                 ELSE nodes[FindIndex(nodes, LAMBDA n : n.filePath = p)]
        ELSE LET bi == FindIndex(nodes, LAMBDA n : n.language = "YAML" /\ n.filePath # <<>>
                                                   /\ r # <<>> /\ n.filePath[Len(n.filePath)] = r[Len(r)])
             IN  IF bi = 0 THEN NoResult ELSE nodes[bi]
  IN  IF found = NoResult THEN <<>> ELSE <<MkEdge(k.id, found.id, "REFERENCES")>>

\* analyzeHelm: Chart -> templates and values.yaml, then Kustomize -> resources
AnalyzeHelm(codeMap) ==
  LET nodes == codeMap.nodes
      helmNodes == SelectSeq(nodes, LAMBDA n : n.language = "YAML" /\ n.metadata.platform = "Helm")
      charts == SelectSeq(helmNodes, LAMBDA n : n.label = "Helm Chart")
      templates == SelectSeq(helmNodes, LAMBDA n : n.metadata.resourceKind # "")
      values == SelectSeq(nodes, LAMBDA n : n.language = "YAML" /\ n.filePath # <<>>
                                            /\ n.filePath[Len(n.filePath)] = "values.yaml")
      OfChart(chart) ==
        [j \in 1..Len(templates) |-> MkEdge(chart.id, templates[j].id, "REFERENCES")] \o
        [j \in 1..Len(values) |-> MkEdge(chart.id, values[j].id, "REFERENCES")]
      chartEdges == Flatten([i \in 1..Len(charts) |-> OfChart(charts[i])])
      kustomNodes == SelectSeq(nodes, LAMBDA n : n.language = "YAML" /\ n.metadata.platform = "Kustomize")
      OfKustom(k) ==
        Flatten([j \in 1..Len(k.metadata.resources) |-> KustomizeLink(nodes, k, k.metadata.resources[j])])
      kustomEdges == Flatten([i \in 1..Len(kustomNodes) |-> OfKustom(kustomNodes[i])])
  IN  [codeMap EXCEPT !.edges = codeMap.edges \o chartEdges \o kustomEdges]

\* analyzeTerraform: byLabel index over the resources, then REFERENCES edges for the
\* depends_on entries and for the inline type.name references of each snippet
AnalyzeTerraform(codeMap) ==
  LET resources == SelectSeq(codeMap.nodes,
                     LAMBDA n : n.language = "Terraform" /\ n.metadata.kind = "resource")
      \* byLabel.get(id): Map.set keeps the last resource of a label; 0 if none
      ByLabel(id) ==
        LET idx == {i \in 1..Len(resources) :
                      /\ resources[i].metadata.resourceType # ""
                      /\ resources[i].metadata.resourceName # ""
                      /\ resources[i].label = id}
        IN  IF idx = {} THEN 0 ELSE CHOOSE i \in idx : \A j \in idx : j <= i
      Refs(r, ids) ==
        LET hits == SelectSeq(ids, LAMBDA id : ByLabel(id) # 0)
        IN  [j \in 1..Len(hits) |-> MkEdge(r.id, resources[ByLabel(hits[j])].id, "REFERENCES")]
      OfResource(r) == Refs(r, r.codeSnippet.dependsOn) \o Refs(r, r.codeSnippet.refs)
  IN  [codeMap EXCEPT !.edges = codeMap.edges \o
                                Flatten([i \in 1..Len(resources) |-> OfResource(resources[i])])]

\* ------------------------------------------------------ CodeQualityAnalyzer
\* The code of a snippet scanned by the analyzer is the sequence of its characters; a
\* run of characters that one of the analyzer's patterns takes as a whole (a loop opener,
\* a call) is kept as one element.  Indices are those of the code: 0 is the first element.

\* the three quote characters; "backtick" stands for the backtick character
Quotes == {"\"", "'", "backtick"}

\* the for loop of findMatchingBrace from index i on
RECURSIVE ScanBraces(_, _, _, _, _)
ScanBraces(code, i, depth, inString, stringChar) ==
  IF i >= Len(code) THEN -1
  ELSE
  LET char == code[i + 1]
      prevChar == IF i > 0 THEN code[i] ELSE ""
  IN  IF char \in Quotes /\ prevChar # "\\"
      THEN IF ~inString THEN ScanBraces(code, i + 1, depth, TRUE, char)
           ELSE IF char = stringChar THEN ScanBraces(code, i + 1, depth, FALSE, stringChar)
           ELSE ScanBraces(code, i + 1, depth, inString, stringChar)
      ELSE IF inString THEN ScanBraces(code, i + 1, depth, inString, stringChar)
      ELSE IF char = "}"
           THEN IF depth - 1 = 0 THEN i + 1
                ELSE ScanBraces(code, i + 1, depth - 1, inString, stringChar)
           ELSE ScanBraces(code, i + 1, IF char = "{" THEN depth + 1 ELSE depth,
                           inString, stringChar)

\* CodeQualityAnalyzer.findMatchingBrace
FindMatchingBrace(code, start) == ScanBraces(code, start, 0, FALSE, "")

\* regex.test(name) for the patterns /Service/i, /Controller/i, the test-code pattern
\* /test|spec|mock|stub/i, the entry-point pattern /main|index|entry|constructor|init|startup/i
\* and the backup pattern /backup|old|temp|tmp/i, on the names of the corpus
NameHolds(name, pattern) ==
  CASE pattern = "Service" -> name \in {"UserService.js"}
    [] pattern = "Controller" -> name \in {"UserController.js"} \/ IsControllerName(name)
    [] pattern = "test" -> FALSE
    [] pattern = "entry" -> name \in {"index", "init", "main"}
    [] pattern = "backup" -> name \in {"old", "templates"}
    [] OTHER -> FALSE

\* pattern.test(element) on the elements of the codes considered, for
\*   "dbQuery"  any of the dbQueryPatterns of detectDBQueriesInLoops
\*   "query"    any of the queryPatterns of detectNPlusOneQueries
\*   "eager"    the eager-loading pattern of detectNPlusOneQueries
\* (`db.users.Find(` is met by none of the dbQueryPatterns: `users.` is not `User.`)
Matches(pattern, element) ==
  CASE pattern = "dbQuery" -> element \in {"User.Find("}
    [] pattern = "query" -> element \in {"db.users.Find(", "User.Find(", ".Include("}
    [] pattern = "eager" -> element \in {".Include("}
    [] OTHER -> FALSE

\* the indices of [...code.matchAll(loopPattern)] for the loop patterns `for (...) {`,
\* `while (...) {`, `foreach (` and `.forEach(`; a for or while header is one element,
\* "for()" or "while()", and the pattern takes the brace that follows it
LoopStarts(code, loopPattern) ==
  {i \in 0..(Len(code) - 1) :
     /\ code[i + 1] = loopPattern
     /\ loopPattern \in {"for()", "while()"} => (i + 2 <= Len(code) /\ code[i + 2] = "{")}

\* the loops of a code, pattern after pattern and in match order, whose body (from the
\* loop start to the matching brace) satisfies Flagged; a loop without a matching
\* brace is skipped and a start already seen is not taken again
FlaggedLoops(code, loopPatterns, Flagged(_)) ==
  LET Hits(loopPattern) ==
        SelectSeq([i \in 1..Len(code) |-> i - 1],
                  LAMBDA start :
                    /\ start \in LoopStarts(code, loopPattern)
                    /\ FindMatchingBrace(code, start) # -1
                    /\ Flagged(SubSeq(code, start + 1, FindMatchingBrace(code, start))))
      all == Flatten([k \in 1..Len(loopPatterns) |-> Hits(loopPatterns[k])])
  IN  SelectSeq([k \in 1..Len(all) |-> IF \E j \in 1..(k - 1) : all[j] = all[k] THEN -1 ELSE all[k]],
                LAMBDA start : start # -1)

\* detectDBQueriesInLoops: the issues pushed for one node
DetectDBQueriesInLoops(node) ==
  LET loops == FlaggedLoops(node.codeSnippet.code, <<"for()", "while()", "foreach(">>,
                            LAMBDA loopBody : \E k \in 1..Len(loopBody) : Matches("dbQuery", loopBody[k]))
  IN  [k \in 1..Len(loops) |-> [filePath |-> node.filePath, functionName |-> node.label]]

\* detectNPlusOneQueries: the issues pushed for one node
DetectNPlusOneQueries(node) ==
  LET loops == FlaggedLoops(node.codeSnippet.code, <<"for()", "while()", "foreach(", ".forEach(">>,
                            LAMBDA loopBody :
                              /\ \E k \in 1..Len(loopBody) : Matches("query", loopBody[k])
                              /\ ~\E k \in 1..Len(loopBody) : Matches("eager", loopBody[k]))
  IN  [k \in 1..Len(loops) |-> [filePath |-> node.filePath, functionName |-> node.label]]

\* /Service|Controller/i.test(node.filePath) || /Service|Controller/i.test(node.label)
InServiceOrController(node) ==
  \E name \in SeqToSet(node.filePath) \cup {node.label} :
     NameHolds(name, "Service") \/ NameHolds(name, "Controller")

\* detectTechnicalDebt: the issues pushed for one node, line after line (the comment text
\* of an issue is left out)
DetectTechnicalDebt(node) ==
  IF ~\E name \in SeqToSet(node.filePath) \cup {node.label} : NameHolds(name, "Service")
  THEN <<>>
  ELSE LET lines == node.codeSnippet.debt
       IN  Flatten([i \in 1..Len(lines) |->
                      [k \in 1..Len(lines[i]) |->
                         [filePath |-> node.filePath, line |-> i, type |-> lines[i][k]]]])

\* detectDeadCode, unused controllers: one issue {filePath, type, name} for every
\* controller (APIRoute nodes and nodes whose label holds "Controller") without an
\* incoming API_CALL or CALLS edge, in node order; deadCode.controllers is their number
UnusedControllers(codeMap) ==
  LET controllers == SelectSeq(codeMap.nodes,
                       LAMBDA n : n.type = "APIRoute" \/ IsControllerName(n.label))
      unused == SelectSeq(controllers,
                  LAMBDA c : ~\E i \in 1..Len(codeMap.edges) :
                                /\ codeMap.edges[i].targetId = c.id
                                /\ codeMap.edges[i].type \in {"API_CALL", "CALLS"})
  IN  [i \in 1..Len(unused) |->
         [filePath |-> unused[i].filePath, type |-> "Unused Controller",
          name |-> unused[i].label]]

\* a dead-code scan whose total leaves the backup files out
DetectDeadCodeBackupsUncounted(codeMap) ==
  LET Incoming(n, types) == \E i \in 1..Len(codeMap.edges) :
                              /\ codeMap.edges[i].targetId = n.id
                              /\ codeMap.edges[i].type \in types
      controllers == UnusedControllers(codeMap)
      serviceMethods == SelectSeq(codeMap.nodes,
                          LAMBDA n : n.type = "Function" /\ n.filePath # <<>> /\ InServiceOrController(n))
      unusedMethods == SelectSeq(serviceMethods,
                         LAMBDA m : ~Incoming(m, {"CALLS"}) /\ ~NameHolds(m.label, "entry"))
      methods == [k \in 1..Len(unusedMethods) |->
                    [filePath |-> unusedMethods[k].filePath, type |-> "Unused Method",
                     name |-> unusedMethods[k].label]]
      allNodes == SelectSeq(codeMap.nodes, LAMBDA n : n.codeSnippet.has)
      BlocksOf(n) == LET large == SelectSeq(n.codeSnippet.blocks, LAMBDA lines : lines > 5)
                     IN  [k \in 1..Len(large) |->
                            [filePath |-> n.filePath, type |-> "Commented Code Block", name |-> n.label]]
      commentedBlocks == Flatten([i \in 1..Len(allNodes) |-> BlocksOf(allNodes[i])])
      backupFiles == SelectSeq(codeMap.nodes,
                       LAMBDA n : n.type = "File" /\ \E name \in SeqToSet(n.filePath) : NameHolds(name, "backup"))
      backups == [k \in 1..Len(backupFiles) |->
                    [filePath |-> backupFiles[k].filePath, type |-> "Backup File",
                     name |-> backupFiles[k].label]]
  IN  [count |-> Len(controllers) + Len(methods) + Len(commentedBlocks),
       controllers |-> Len(controllers), methods |-> Len(methods),
       commentedBlocks |-> Len(commentedBlocks), backupFiles |-> Len(backupFiles),
       issues |-> controllers \o methods \o commentedBlocks \o backups]

\* detectDeadCode: unused controllers, unused methods of services and controllers,
\* large commented blocks, backup files; each sub-count and the total are incremented
\* where the issue is pushed, the backup files are added to the total at once
DetectDeadCode(codeMap) ==
  LET Incoming(n, types) == \E i \in 1..Len(codeMap.edges) :
                              /\ codeMap.edges[i].targetId = n.id
                              /\ codeMap.edges[i].type \in types
      controllers == UnusedControllers(codeMap)
      serviceMethods == SelectSeq(codeMap.nodes,
                          LAMBDA n : n.type = "Function" /\ n.filePath # <<>> /\ InServiceOrController(n))
      unusedMethods == SelectSeq(serviceMethods,
                         LAMBDA m : ~Incoming(m, {"CALLS"}) /\ ~NameHolds(m.label, "entry"))
      methods == [k \in 1..Len(unusedMethods) |->
                    [filePath |-> unusedMethods[k].filePath, type |-> "Unused Method",
                     name |-> unusedMethods[k].label]]
      allNodes == SelectSeq(codeMap.nodes, LAMBDA n : n.codeSnippet.has)
      BlocksOf(n) == LET large == SelectSeq(n.codeSnippet.blocks, LAMBDA lines : lines > 5)
                     IN  [k \in 1..Len(large) |->
                            [filePath |-> n.filePath, type |-> "Commented Code Block", name |-> n.label]]
      commentedBlocks == Flatten([i \in 1..Len(allNodes) |-> BlocksOf(allNodes[i])])
      backupFiles == SelectSeq(codeMap.nodes,
                       LAMBDA n : n.type = "File" /\ \E name \in SeqToSet(n.filePath) : NameHolds(name, "backup"))
      backups == [k \in 1..Len(backupFiles) |->
                    [filePath |-> backupFiles[k].filePath, type |-> "Backup File",
                     name |-> backupFiles[k].label]]
  IN  [count |-> Len(controllers) + Len(methods) + Len(commentedBlocks) + Len(backupFiles),
       controllers |-> Len(controllers), methods |-> Len(methods),
       commentedBlocks |-> Len(commentedBlocks), backupFiles |-> Len(backupFiles),
       issues |-> controllers \o methods \o commentedBlocks \o backups]

\* CodeQualityAnalyzer.analyze: the Statistics record of a map
Analyze(codeMap) ==
  LET functionNodes == SelectSeq(codeMap.nodes,
                         LAMBDA n : n.type \in {"Function", "APIRoute"} /\ n.codeSnippet.has)
      allFunctions == SelectSeq(codeMap.nodes, LAMBDA n : n.type \in {"Function", "APIRoute"})
      OverNodes(IssuesOf(_)) == Flatten([i \in 1..Len(functionNodes) |-> IssuesOf(functionNodes[i])])
      Bucket(issues) == [count |-> Len(issues), issues |-> issues]
      OfType(issues, type) == Len(SelectSeq(issues, LAMBDA issue : issue.type = type))
      Blocking(node) ==
        IF ~InServiceOrController(node) \/ \E name \in SeqToSet(node.filePath) : NameHolds(name, "test")
        THEN <<>>
        ELSE LET methods == Uniq(node.codeSnippet.blocking)
             IN  [k \in 1..Len(methods) |->
                    [filePath |-> node.filePath, functionName |-> node.label, method |-> methods[k]]]
      Typed(node, types) ==
        IF ~InServiceOrController(node) THEN <<>>
        ELSE [k \in 1..Len(types) |->
                [filePath |-> node.filePath, functionName |-> node.label, type |-> types[k]]]
      Duplicates(matches) == {m \in SeqToSet(matches) :
                               Cardinality({k \in 1..Len(matches) : matches[k] = m}) > 1}
      Repeated(holds, type) ==
        IF holds THEN <<[filePath |-> "Multiple files", type |-> type]>> ELSE <<>>
      withSnippet == SelectSeq(codeMap.nodes, LAMBDA n : n.codeSnippet.has)
      sqlNodes == SelectSeq(codeMap.nodes, LAMBDA n : n.language = "SQL")
      RECURSIVE Addresses(_)
      Addresses(i) == IF i = 0 THEN 0 ELSE Addresses(i - 1) + withSnippet[i].codeSnippet.addresses
      debt == OverNodes(DetectTechnicalDebt)
      repeated ==
        Repeated(Duplicates(Flatten([i \in 1..Len(allFunctions) |->
                                       allFunctions[i].codeSnippet.validations])) # {},
                 "Duplicate validation logic") \o
        Repeated(Addresses(Len(withSnippet)) > 3, "Duplicate address collection") \o
        Repeated(Duplicates(Flatten([i \in 1..Len(sqlNodes) |->
                                       sqlNodes[i].codeSnippet.migrations])) # {},
                 "Duplicate SQL migrations") \o
        Repeated(Duplicates(Flatten([i \in 1..Len(allFunctions) |->
                                       allFunctions[i].codeSnippet.includes])) # {},
                 "Repeated Include patterns")
  IN  [dbQueriesInLoops |-> Bucket(OverNodes(DetectDBQueriesInLoops)),
       nPlusOneQueries |-> Bucket(OverNodes(DetectNPlusOneQueries)),
       deadCode |-> DetectDeadCode(codeMap),
       technicalDebt |->
         [count |-> OfType(debt, "TODO") + OfType(debt, "FIXME") + OfType(debt, "HACKY")
                    + OfType(debt, "TEMPORARILY_REMOVED"),
          todos |-> OfType(debt, "TODO"), fixmes |-> OfType(debt, "FIXME"),
          hackyComments |-> OfType(debt, "HACKY"),
          temporarilyRemoved |-> OfType(debt, "TEMPORARILY_REMOVED"), issues |-> debt],
       codeSmells |-> Bucket(OverNodes(LAMBDA node : Typed(node, node.codeSnippet.smells))),
       repeatedCode |-> Bucket(repeated),
       anomalies |-> Bucket(OverNodes(LAMBDA node : Typed(node, node.codeSnippet.anomalies))),
       blockingAsyncCalls |-> Bucket(OverNodes(Blocking))]

\* ------------------------------------------------- Orchestrator: dedupe, sort
\* routeKey(n) = `${n.filePath}::${n.label}`
RouteKey(n) == <<n.filePath, n.label>>

\* firstByKey.get(key): the id of the first APIRoute node of the key
FirstByKey(nodes, key) ==
  nodes[FindIndex(nodes, LAMBDA n : n.type = "APIRoute" /\ RouteKey(n) = key)].id

\* duplicates recognised only among routes of the same HTTP method
ToRemoveSameMethod(nodes) ==
  {nodes[i].id : i \in {j \in 1..Len(nodes) :
      /\ nodes[j].type = "APIRoute"
      /\ \E k \in 1..(j-1) : /\ nodes[k].type = "APIRoute"
                              /\ RouteKey(nodes[k]) = RouteKey(nodes[j])
                              /\ nodes[k].metadata.httpMethod = nodes[j].metadata.httpMethod}}

\* toRemove: the ids of the APIRoute nodes that are not the first of their key
ToRemove(nodes) ==
  {nodes[i].id : i \in {j \in 1..Len(nodes) :
      /\ nodes[j].type = "APIRoute"
      /\ \E k \in 1..(j-1) : nodes[k].type = "APIRoute" /\ RouteKey(nodes[k]) = RouteKey(nodes[j])}}

\* the edge-rewrite loop body: an edge that targets a removed id is pointed at the
\* canonical node of the key of the first node carrying that id
RewriteEdge(nodes, toRemove, e) ==
  IF e.targetId \in toRemove
  THEN LET dupNode == nodes[FindIndex(nodes, LAMBDA nn : nn.id = e.targetId)]
       IN  [e EXCEPT !.targetId = FirstByKey(nodes, RouteKey(dupNode))]
  ELSE e

DedupeAPIRoutes(codeMap) ==
  LET toRemove == ToRemove(codeMap.nodes) IN
  IF toRemove = {} THEN codeMap
  ELSE [nodes |-> SelectSeq(codeMap.nodes, LAMBDA n : n.id \notin toRemove),
        edges |-> [i \in 1..Len(codeMap.edges) |->
                     RewriteEdge(codeMap.nodes, toRemove, codeMap.edges[i])]]

\* the nodes comparator: type, then filePath, then label
NodeKey(n) == <<Rank(n.type)>> \o StrSeqKey(n.filePath) \o <<Rank(n.label)>>
NodeLess(a, b) == IntSeqLess(NodeKey(a), NodeKey(b))

\* the edges comparator: type, then sourceId, then targetId
EdgeKey(e) == <<Rank(e.type)>> \o StrSeqKey(e.sourceId) \o StrSeqKey(e.targetId)
EdgeLess(a, b) == IntSeqLess(EdgeKey(a), EdgeKey(b))

\* an edges comparator that stops at the type
SortEdgesByType(edges) == StableSort(edges, LAMBDA e : <<Rank(e.type)>>)

SortNodes(nodes) == StableSort(nodes, NodeKey)
SortEdges(edges) == StableSort(edges, EdgeKey)

\* -------------------------------------------------------------- the pipeline
VARIABLES
  analysed,       \* the indices analyzeFile was called for, in call order
  probe,          \* a route-matching call of analyzeAPICalls taken on its own
  filePaths,      \* the discovered / onlyFiles list
  content,        \* the text of each file on disk
  rules,          \* config.interactionRules (<<>> when absent)
  concurrency,    \* the clamped worker count
  index,          \* the shared index of the worker pool (0-based)
  results,        \* the results array the workers push to
  wpc,            \* per worker: "ready", "run" (holds an index), "done", "threw"
  wi,             \* per worker: the index it took
  pc,             \* the step analyzeProject is at ("rejected": its promise rejected)
  nodes, edges,   \* masterCodeMap
  statistics,     \* masterCodeMap.statistics
  passes,         \* the InteractionAnalyzer passes called so far, in call order
  preNodes, preEdges  \* masterCodeMap as it was when the dedupe step started

vars == <<analysed, probe, env, filePaths, content, rules, concurrency, index, results, wpc, wi, pc,
          nodes, edges, statistics, passes, preNodes, preEdges>>

Workers == 1..MaxConcurrency

\* no route-matching call is under consideration
NoProbe == [route |-> <<>>, path |-> <<>>, tested |-> FALSE, matched |-> FALSE]

\* the file lists of at most MaxFiles entries (onlyFiles may repeat a path)
FileLists == UNION {[1..n -> Files] : n \in 0..MaxFiles}

\* the interaction rules of the configuration: none, one rule over the project root, or
\* one rule with the frontend at p/a and the backend at p/b
RuleSets == {<<>>, <<[type |-> "API_CALL", frontend |-> <<"p">>, backend |-> <<"p">>]>>,
             <<[type |-> "API_CALL", frontend |-> <<"p", "a">>, backend |-> <<"p", "b">>]>>}

Init ==
  /\ probe = NoProbe
  /\ analysed = <<>>
  /\ env = Benign
  /\ filePaths \in FileLists
  /\ content \in Contents(Files, SeqToSet(filePaths))
  /\ rules \in RuleSets
  /\ concurrency \in 1..MaxConcurrency
  /\ index = 0
  /\ results = <<>>
  /\ wpc = [w \in Workers |-> IF w <= concurrency THEN "ready" ELSE "done"]
  /\ wi = [w \in Workers |-> 0]
  /\ pc = "extract"
  /\ nodes = <<>>
  /\ edges = <<>>
  /\ statistics = <<>>
  /\ passes = <<>>
  /\ preNodes = <<>>
  /\ preEdges = <<>>

\* workers that yield between taking an index and pushing the result
CanRunAnyTime(w) == TRUE

\* worker() is an async function without an await: Array.from starts the workers one
\* after the other and each runs its whole loop before the next one starts
CanRun(w) == \A v \in Workers : v < w => wpc[v] \in {"done", "threw"}

\* a worker that reads the shared index and leaves it as it is
WorkerTakeStale(w) ==
  /\ pc = "extract" /\ wpc[w] = "ready" /\ CanRun(w) /\ Len(analysed) <= Len(filePaths)
  /\ wi' = [wi EXCEPT ![w] = index]
  /\ wpc' = [wpc EXCEPT ![w] = IF index >= Len(filePaths) THEN "done" ELSE "run"]
  /\ UNCHANGED <<analysed, probe, env, filePaths, content, rules, concurrency, index,
                 results, pc, nodes, edges, statistics, passes, preNodes, preEdges>>

\* `const i = index++; if (i >= filePaths.length) break`
WorkerTake(w) ==
  /\ pc = "extract" /\ wpc[w] = "ready" /\ CanRun(w)
  /\ index' = index + 1
  /\ wi' = [wi EXCEPT ![w] = index]
  /\ wpc' = [wpc EXCEPT ![w] = IF index >= Len(filePaths) THEN "done" ELSE "run"]
  /\ UNCHANGED <<analysed, probe, env, filePaths, content, rules, concurrency, results, pc, nodes, edges,
                 statistics, passes, preNodes, preEdges>>

\* `const result = this.analyzeFile(filePath); if (result) results.push({result, filePath})`
\* an exception of analyzeFile leaves the loop and rejects the worker's promise
WorkerAnalyze(w) ==
  /\ pc = "extract" /\ wpc[w] = "run" /\ CanRun(w)
  /\ analysed' = Append(analysed, wi[w])
  /\ LET filePath == filePaths[wi[w] + 1]
         result == AnalyzeFile(filePath, content[filePath])
     IN  /\ results' = IF result \in {NoResult, Thrown} THEN results
                       ELSE Append(results, [result |-> result, filePath |-> filePath])
         /\ wpc' = [wpc EXCEPT ![w] = IF result = Thrown THEN "threw" ELSE "ready"]
  /\ UNCHANGED <<probe, env, filePaths, content, rules, concurrency, index, wi, pc, nodes, edges,
                 statistics, passes, preNodes, preEdges>>

\* the merge loop over results: the nodes and edges of every result, in results order
MergeResults(rs) ==
  [nodes |-> Flatten([i \in 1..Len(rs) |-> rs[i].result.nodes]),
   edges |-> Flatten([i \in 1..Len(rs) |-> rs[i].result.edges])]

\* a merge that does not wait for the workers
MergeEarly ==
  /\ pc = "extract" /\ results # <<>>
  /\ LET merged == MergeResults(results)
     IN  nodes' = nodes \o merged.nodes /\ edges' = edges \o merged.edges
  /\ pc' = "imports"
  /\ UNCHANGED <<analysed, probe, env, filePaths, content, rules, concurrency, index, results, wpc, wi,
                 statistics, passes, preNodes, preEdges>>

\* after `await Promise.all(workers)`: the merge into masterCodeMap, or the rejection of
\* analyzeProject when a worker's promise rejected
Merge ==
  /\ pc = "extract" /\ \A w \in Workers : wpc[w] \in {"done", "threw"}
  /\ IF \E w \in Workers : wpc[w] = "threw"
     THEN pc' = "rejected" /\ UNCHANGED <<nodes, edges>>
     ELSE /\ LET merged == MergeResults(results)
             IN  nodes' = nodes \o merged.nodes /\ edges' = edges \o merged.edges
          /\ pc' = "imports"
  /\ UNCHANGED <<analysed, probe, env, filePaths, content, rules, concurrency, index, results, wpc, wi,
                 statistics, passes, preNodes, preEdges>>

\* one post-pass: masterCodeMap = pass(masterCodeMap)
Pass(at, name, out, next) ==
  /\ pc = at
  /\ LET codeMap == out
     IN  nodes' = codeMap.nodes /\ edges' = codeMap.edges
  /\ passes' = Append(passes, name)
  /\ pc' = next
  /\ UNCHANGED <<analysed, probe, env, filePaths, content, rules, concurrency, index, results, wpc, wi,
                 statistics, preNodes, preEdges>>

CodeMap == [nodes |-> nodes, edges |-> edges]

PassImports == Pass("imports", "imports", ResolveImportEdges(CodeMap), "apicalls")

\* API call synthesis run whether or not rules are configured
PassAPICallsAlways == Pass("apicalls", "apicalls", AnalyzeAPICalls(CodeMap, rules), "dblineage")

\* `if (this.config.interactionRules) masterCodeMap = analyzeAPICalls(...)`
PassAPICalls ==
  \/ /\ rules # <<>>
     /\ Pass("apicalls", "apicalls", AnalyzeAPICalls(CodeMap, rules), "dblineage")
  \/ /\ rules = <<>> /\ pc = "apicalls"
     /\ pc' = "dblineage"
     /\ UNCHANGED <<analysed, probe, env, filePaths, content, rules, concurrency, index, results, wpc, wi,
                    nodes, edges, statistics, passes, preNodes, preEdges>>

PassDBLineage == Pass("dblineage", "dblineage", AnalyzeDBLineage(CodeMap), "orm")
PassORM == Pass("orm", "orm", AnalyzeORM(CodeMap), "kubernetes")
PassKubernetes == Pass("kubernetes", "kubernetes", AnalyzeKubernetes(CodeMap), "helm")
PassHelm == Pass("helm", "helm", AnalyzeHelm(CodeMap), "terraform")
PassTerraform == Pass("terraform", "terraform", AnalyzeTerraform(CodeMap), "graphql")
PassGraphQLSDL == Pass("graphql", "graphql", AnalyzeGraphQLSDL(CodeMap), "quality")

\* masterCodeMap.statistics = codeQualityAnalyzer.analyze(masterCodeMap)
CodeQuality ==
  /\ pc = "quality"
  /\ statistics' = Analyze(CodeMap)
  /\ pc' = "dedupe"
  /\ UNCHANGED <<analysed, probe, env, filePaths, content, rules, concurrency, index, results, wpc, wi,
                 nodes, edges, passes, preNodes, preEdges>>

Dedupe ==
  /\ pc = "dedupe"
  /\ preNodes' = nodes
  /\ preEdges' = edges
  /\ LET out == DedupeAPIRoutes(CodeMap)
     IN  nodes' = out.nodes /\ edges' = out.edges
  /\ pc' = "sort"
  /\ UNCHANGED <<analysed, probe, env, filePaths, content, rules, concurrency, index, results, wpc, wi,
                 statistics, passes>>

Sort ==
  /\ pc = "sort"
  /\ nodes' = SortNodes(nodes)
  /\ edges' = SortEdges(edges)
  /\ pc' = "done"
  /\ UNCHANGED <<analysed, probe, env, filePaths, content, rules, concurrency, index, results, wpc, wi,
                 statistics, passes, preNodes, preEdges>>

Next ==
  \/ \E w \in Workers : WorkerTake(w)
  \/ \E w \in Workers : WorkerAnalyze(w)
  \/ Merge
  \/ PassImports
  \/ PassAPICalls
  \/ PassDBLineage
  \/ PassORM
  \/ PassKubernetes
  \/ PassHelm
  \/ PassTerraform
  \/ PassGraphQLSDL
  \/ CodeQuality
  \/ Dedupe
  \/ Sort

Spec == Init /\ [][Next]_vars

\* ------------------------------- the pipeline in a faulty environment
\* analyzeProject over files that may be missing, unreadable, over the size limit, or
\* without a usable grammar, with the file list given by onlyFiles or found by glob.

\* at most this many files of a run are faulty, and at most this many are large
MaxFaults == 1

\* analyzeProject's file discovery: onlyFiles is taken as given; glob results are kept
\* when statSync succeeds and the size is within maxFileSizeKB (config.maxFiles absent)
DiscoverFiles(candidates, e) ==
  IF e.onlyFiles THEN candidates
  ELSE SelectSeq(candidates, LAMBDA filePath :
                   e.fault[filePath] # "missing" /\ e.sizeKB[filePath] <= e.maxFileSizeKB)

\* the environments in which only files of `listed` are faulty or large
Environments(listed) ==
  {[onlyFiles |-> o, maxFileSizeKB |-> m,
    sizeKB |-> [f \in Files |-> IF f \in large THEN 2 ELSE 1],
    fault |-> [f \in Files |-> IF f \in faulty THEN k ELSE "ok"]] :
     o \in BOOLEAN, m \in {1, Infinity}, k \in FaultKinds,
     large \in {x \in SUBSET listed : Cardinality(x) <= MaxFaults},
     faulty \in {x \in SUBSET listed : Cardinality(x) <= MaxFaults}}

InitEnv ==
  /\ probe = NoProbe
  /\ analysed = <<>>
  /\ \E candidates \in FileLists :
       /\ env \in Environments(SeqToSet(candidates))
       /\ env.onlyFiles \/ Cardinality(SeqToSet(candidates)) = Len(candidates)
       /\ content \in Contents(Files, SeqToSet(candidates))
       /\ filePaths = DiscoverFiles(candidates, env)
  /\ rules \in RuleSets
  /\ concurrency \in 1..MaxConcurrency
  /\ index = 0
  /\ results = <<>>
  /\ wpc = [w \in Workers |-> IF w <= concurrency THEN "ready" ELSE "done"]
  /\ wi = [w \in Workers |-> 0]
  /\ pc = "extract"
  /\ nodes = <<>>
  /\ edges = <<>>
  /\ statistics = <<>>
  /\ passes = <<>>
  /\ preNodes = <<>>
  /\ preEdges = <<>>

SpecEnv == InitEnv /\ [][Next]_vars

\* ------------------------------------------------- route matching on its own
\* One call regex.test(pathOnly) of analyzeAPICalls' pushEdge, for a route label and a
\* call path of at most MaxSegments segments each.

MaxSegments == 2

\* the segments a route label is made of: literals, :name and {name} parameters
RouteSegments == {<<"a">>, <<"b">>, <<":", "a">>, <<"{", "a", "}">>, <<"a", ".", "b">>}

\* the segments a call path is made of
PathSegments == {<<"a">>, <<"b">>, <<"a", "x", "b">>, <<"a", ".", "b">>}

SegmentLists(segs) == UNION {[1..n -> segs] : n \in 1..MaxSegments}

\* '/' + segments.join('/')
JoinSegments(segs) == Flatten([i \in 1..Len(segs) |-> <<"/">> \o segs[i]])

InitRoute ==
  /\ \E rs \in SegmentLists(RouteSegments) : \E ps \in SegmentLists(PathSegments) :
       probe = [route |-> JoinSegments(rs), path |-> JoinSegments(ps),
                routeSegments |-> rs, pathSegments |-> ps,
                tested |-> FALSE, matched |-> FALSE]
  /\ analysed = <<>>
  /\ env = Benign
  /\ filePaths = <<>>
  /\ content = [f \in Files |-> DefaultText(f)]
  /\ rules = <<>>
  /\ concurrency = 1
  /\ index = 0
  /\ results = <<>>
  /\ wpc = [w \in Workers |-> "done"]
  /\ wi = [w \in Workers |-> 0]
  /\ pc = "route"
  /\ nodes = <<>>
  /\ edges = <<>>
  /\ statistics = <<>>
  /\ passes = <<>>
  /\ preNodes = <<>>
  /\ preEdges = <<>>

\* `backendPatterns.find((p) => p.regex.test(pathOnly))` for one pattern
TestRoute ==
  /\ pc = "route" /\ ~probe.tested
  /\ probe' = [probe EXCEPT !.tested = TRUE,
                            !.matched = RegexTest(RouteToRegex(probe.route),
                                                  NormalizePath(probe.path))]
  /\ UNCHANGED <<analysed, env, filePaths, content, rules, concurrency, index, results, wpc, wi, pc,
                 nodes, edges, statistics, passes, preNodes, preEdges>>

SpecRoute == InitRoute /\ [][TestRoute]_vars

\* ------------------------------------------------- one brace-matching call
\* findMatchingBrace(code, start) on every code of at most MaxCode characters

\* a code has at most this many characters
MaxCode == 4

\* the characters of a code: braces, the three quotes, the backslash, a letter
BraceChars == {"{", "}", "x", "\\"} \cup Quotes

InitBrace ==
  /\ \E code \in UNION {[1..n -> BraceChars] : n \in 0..MaxCode} :
       \E start \in 0..Len(code) :
         probe = [code |-> code, start |-> start, tested |-> FALSE, result |-> -1]
  /\ analysed = <<>>
  /\ env = Benign
  /\ filePaths = <<>>
  /\ content = [f \in Files |-> DefaultText(f)]
  /\ rules = <<>>
  /\ concurrency = 1
  /\ index = 0
  /\ results = <<>>
  /\ wpc = [w \in Workers |-> "done"]
  /\ wi = [w \in Workers |-> 0]
  /\ pc = "brace"
  /\ nodes = <<>>
  /\ edges = <<>>
  /\ statistics = <<>>
  /\ passes = <<>>
  /\ preNodes = <<>>
  /\ preEdges = <<>>

MatchBrace ==
  /\ pc = "brace" /\ ~probe.tested
  /\ probe' = [probe EXCEPT !.tested = TRUE,
                            !.result = FindMatchingBrace(probe.code, probe.start)]
  /\ UNCHANGED <<analysed, env, filePaths, content, rules, concurrency, index, results, wpc, wi, pc,
                 nodes, edges, statistics, passes, preNodes, preEdges>>

SpecBrace == InitBrace /\ [][MatchBrace]_vars

\* ------------------------------------------------ the quality analysis on its own
\* CodeQualityAnalyzer.analyze on a map holding the function `load` of a service, whose
\* snippet has a code of at most MaxCode elements, alone or with further nodes

\* a snippet with debt comments on two of three lines, two comment blocks (one of more
\* than five lines), a blocking call matched twice, a smell, an anomaly, a repeated
\* validation, a repeated include and four address matches
BusySnippet ==
  [PlainSnippet EXCEPT !.debt = <<<<"TODO", "FIXME">>, <<>>, <<"HACKY", "TEMPORARILY_REMOVED">>>>,
                       !.blocks = <<6, 3>>,
                       !.blocking = <<".Result", ".Result", ".Wait()">>,
                       !.smells = <<"Long Method">>,
                       !.anomalies = <<"Missing Await">>,
                       !.validations = <<"validate(x)", "validate(x)">>,
                       !.includes = <<".include(a)", ".include(a)">>,
                       !.addresses = 4]

\* the function `load` with the given snippet
LoadNode(snippet) ==
  MkNode(<<"load">>, "Function", "load", <<"p", "UserService.js">>, "JavaScript", snippet, NoMeta)

\* the maps analysed: `load` alone; `load` with a busy snippet, a route nobody calls and
\* the File node of a Helm template; `load` called by the entry point `init`, with two
\* SQL nodes of one table
QualityMaps(code) ==
  {[nodes |-> <<LoadNode([PlainSnippet EXCEPT !.code = code])>>, edges |-> <<>>],
   [nodes |-> <<LoadNode([BusySnippet EXCEPT !.code = code]),
                MkNode(<<"route">>, "APIRoute", "GET /users", <<"p", "UserController.js">>,
                       "JavaScript", [PlainSnippet EXCEPT !.code = code], NoMeta),
                MkNode(<<"file">> \o FileD, "File", "d.yaml", FileD, "YAML", NoSnippet, NoMeta)>>,
    edges |-> <<>>],
   [nodes |-> <<LoadNode([PlainSnippet EXCEPT !.code = code]),
                MkNode(<<"init">>, "Function", "init", <<"p", "UserService.js">>, "JavaScript",
                       PlainSnippet, NoMeta),
                MkNode(<<"t1">>, "Table", "users", <<"p", "s.sql">>, "SQL",
                       [PlainSnippet EXCEPT !.migrations = <<"create table users">>], NoMeta),
                MkNode(<<"t2">>, "Table", "users", <<"p", "s.sql">>, "SQL",
                       [PlainSnippet EXCEPT !.migrations = <<"create table users">>], NoMeta)>>,
    edges |-> <<MkEdge(<<"init">>, <<"load">>, "CALLS")>>]}

InitQuality ==
  /\ LET CodeElements == {"for()", ".forEach(", "{", "}", "db.users.Find(", "User.Find(", ".Include("}
     IN  \E code \in UNION {[1..n -> CodeElements] : n \in 0..MaxCode} :
           \E codeMap \in QualityMaps(code) :
             /\ nodes = codeMap.nodes
             /\ edges = codeMap.edges
  /\ probe = NoProbe
  /\ analysed = <<>>
  /\ env = Benign
  /\ filePaths = <<>>
  /\ content = [f \in Files |-> DefaultText(f)]
  /\ rules = <<>>
  /\ concurrency = 1
  /\ index = 0
  /\ results = <<>>
  /\ wpc = [w \in Workers |-> "done"]
  /\ wi = [w \in Workers |-> 0]
  /\ pc = "analyze"
  /\ statistics = <<>>
  /\ passes = <<>>
  /\ preNodes = <<>>
  /\ preEdges = <<>>

AnalyzeMap ==
  /\ pc = "analyze" /\ statistics = <<>>
  /\ statistics' = Analyze(CodeMap)
  /\ UNCHANGED <<analysed, probe, env, filePaths, content, rules, concurrency, index, results, wpc,
                 wi, pc, nodes, edges, passes, preNodes, preEdges>>

SpecQuality == InitQuality /\ [][AnalyzeMap]_vars

\* ------------------------------------------------ the pipeline over Helm charts
\* analyzeProject over the files of two Helm charts, each listed at most once, in any order

HelmFileLists ==
  {l \in UNION {[1..n -> HelmFiles] : n \in 0..Cardinality(HelmFiles)} :
     \A i, j \in 1..Len(l) : i # j => l[i] # l[j]}

InitHelm ==
  /\ probe = NoProbe
  /\ analysed = <<>>
  /\ env = Benign
  /\ filePaths \in HelmFileLists
  /\ content \in Contents(HelmFiles, SeqToSet(filePaths))
  /\ rules \in RuleSets
  /\ concurrency \in 1..MaxConcurrency
  /\ index = 0
  /\ results = <<>>
  /\ wpc = [w \in Workers |-> IF w <= concurrency THEN "ready" ELSE "done"]
  /\ wi = [w \in Workers |-> 0]
  /\ pc = "extract"
  /\ nodes = <<>>
  /\ edges = <<>>
  /\ statistics = <<>>
  /\ passes = <<>>
  /\ preNodes = <<>>
  /\ preEdges = <<>>

SpecHelm == InitHelm /\ [][Next]_vars

\* ------------------------------------------- the linkage passes on their own
\* The public passes of InteractionAnalyzer called by a client in any order and any
\* number of times (at most MaxPasses calls), on a map made of strategy results after
\* import resolution, with or without File nodes of GraphQL SDL files.

\* the File nodes of .graphql files a client's map may hold
SdlNodeLists == {<<>>, <<FileNode(FileQ, "GraphQL"), FileNode(FileQ, "GraphQL")>>}

\* the results array of analysing the files of a list in list order
ResultsInOrder(fps, cont) ==
  LET all == [i \in 1..Len(fps) |->
                [result |-> AnalyzeFile(fps[i], cont[fps[i]]), filePath |-> fps[i]]]
  IN  SelectSeq(all, LAMBDA r : r.result # NoResult)

\* the files whose nodes the four passes read (snippets with SQL or ORM calls, Kubernetes
\* manifests); the nodes of the other files of the corpus are left untouched by them
LinkageFiles == {FileA, FileB, FileG, FileS, FileK, FileP}

LinkageFileLists == UNION {[1..n -> LinkageFiles] : n \in 0..MaxFiles}

InitLinkage ==
  /\ probe = NoProbe
  /\ analysed = <<>>
  /\ env = Benign
  /\ filePaths \in LinkageFileLists
  /\ content \in Contents(Files, SeqToSet(filePaths))
  /\ rules = <<>>
  /\ concurrency = 1
  /\ index = Len(filePaths) + 1
  /\ results = ResultsInOrder(filePaths, content)
  /\ wpc = [w \in Workers |-> "done"]
  /\ wi = [w \in Workers |-> 0]
  /\ pc = "linkage"
  /\ \E sdl \in SdlNodeLists :
       LET codeMap == ResolveImportEdges(MergeResults(results))
       IN  nodes = codeMap.nodes \o sdl /\ edges = codeMap.edges
  /\ statistics = <<>>
  /\ passes = <<>>
  /\ preNodes = <<>>
  /\ preEdges = <<>>

Link(name, out) ==
  /\ pc = "linkage" /\ Len(passes) < MaxPasses
  /\ LET codeMap == out
     IN  nodes' = codeMap.nodes /\ edges' = codeMap.edges
  /\ passes' = Append(passes, name)
  /\ UNCHANGED <<analysed, probe, env, filePaths, content, rules, concurrency, index, results, wpc, wi, pc,
                 statistics, preNodes, preEdges>>

LinkDBLineage == Link("dblineage", AnalyzeDBLineage(CodeMap))
LinkORM == Link("orm", AnalyzeORM(CodeMap))
LinkKubernetes == Link("kubernetes", AnalyzeKubernetes(CodeMap))
LinkGraphQLSDL == Link("graphql", AnalyzeGraphQLSDL(CodeMap))

NextLinkage ==
  \/ LinkDBLineage
  \/ LinkORM
  \/ LinkKubernetes
  \/ LinkGraphQLSDL

SpecLinkage == InitLinkage /\ [][NextLinkage]_vars

\* ------------------------------------------------------------- properties
NodeIds(ns) == {ns[i].id : i \in 1..Len(ns)}

\* the indices of the APIRoute nodes of ns that carry the key
RoutesOfKey(ns, key) == {i \in 1..Len(ns) : ns[i].type = "APIRoute" /\ RouteKey(ns[i]) = key}

\* the duplicate APIRoute nodes of ns: those with an earlier APIRoute node of their key
DuplicateRoutes(ns) ==
  {i \in 1..Len(ns) : ns[i].type = "APIRoute"
                      /\ \E k \in RoutesOfKey(ns, RouteKey(ns[i])) : k < i}

\* analyzeProject run with a single worker from the merge on: the map returned for a
\* file list, the files' texts and the interaction rules
SequentialRun(fps, cont, rls) ==
  LET merged == MergeResults(ResultsInOrder(fps, cont))
      imports == ResolveImportEdges(merged)
      apicalls == IF rls # <<>> THEN AnalyzeAPICalls(imports, rls) ELSE imports
      linked == AnalyzeGraphQLSDL(AnalyzeTerraform(AnalyzeHelm(AnalyzeKubernetes(
                  AnalyzeORM(AnalyzeDBLineage(apicalls))))))
  IN  CHOOSE out \in {[nodes |-> SortNodes(d.nodes), edges |-> SortEdges(d.edges)] :
                        d \in {DedupeAPIRoutes(linked)}} : TRUE

\* C1: when analyzeProject has completed, the sourceId of every edge of the final map
\* is the id of a node of the final nodes array, also when the source was an APIRoute
\* node the duplicate collapse removed.
C1_EdgeSourcesAreNodes ==
  pc = "done" => \A i \in 1..Len(edges) : edges[i].sourceId \in NodeIds(nodes)

\* C2: from the duplicate collapse on, no two nodes of type APIRoute of the map have the
\* same (filePath, label) pair.
C2_RouteKeysUnique ==
  pc \in {"sort", "done"} =>
    \A i, j \in 1..Len(nodes) :
      (nodes[i].type = "APIRoute" /\ nodes[j].type = "APIRoute"
       /\ nodes[i].filePath = nodes[j].filePath /\ nodes[i].label = nodes[j].label) => i = j

\* C2 witness: the run is complete, the collapse removed a route of another id than the
\* first route of its key, and that first route is in the final map.
C2_CollapsedRun ==
  /\ pc = "done"
  /\ \E k \in DuplicateRoutes(preNodes) :
       /\ preNodes[k].id \notin NodeIds(nodes)
       /\ \E i \in RoutesOfKey(nodes, RouteKey(preNodes[k])) : nodes[i].id # preNodes[k].id

\* C3: right after the duplicate collapse, every (filePath, label) key that occurred
\* among the APIRoute nodes before it is carried by exactly one APIRoute node, the first
\* node of the key in encounter order, also when two duplicates have the same id.
C3_ExactlyFirstSurvives ==
  pc = "sort" =>
    \A k \in 1..Len(preNodes) :
      preNodes[k].type = "APIRoute" =>
        LET key == RouteKey(preNodes[k])
            first == preNodes[CHOOSE i \in RoutesOfKey(preNodes, key) :
                                \A j \in RoutesOfKey(preNodes, key) : i <= j]
        IN  /\ Cardinality(RoutesOfKey(nodes, key)) = 1
            /\ \A i \in RoutesOfKey(nodes, key) : nodes[i] = first

\* C4: right after the duplicate collapse, every edge that targeted a removed duplicate
\* APIRoute node targets the surviving node of the same (filePath, label), and no edge
\* targets a node the collapse removed.
C4_EdgesFollowSurvivor ==
  pc = "sort" =>
    \A i \in 1..Len(preEdges) :
      /\ \A k \in DuplicateRoutes(preNodes) :
           preEdges[i].targetId = preNodes[k].id =>
             \E n \in RoutesOfKey(nodes, RouteKey(preNodes[k])) : edges[i].targetId = nodes[n].id
      /\ edges[i].targetId \in NodeIds(preNodes) => edges[i].targetId \in NodeIds(nodes)

\* C5: in the final map node ids are pairwise distinct.
C5_NodeIdsDistinct ==
  pc = "done" => \A i, j \in 1..Len(nodes) : nodes[i].id = nodes[j].id => i = j

\* C6: in the final map the targetId of every edge is the id of a node of the final
\* nodes array, except for IMPORTS edges whose resolution failed; REFERENCES edges of
\* the Terraform and SQL strategies do not keep a raw string target.
C6_EdgeTargetsAreNodes ==
  pc = "done" =>
    \A i \in 1..Len(edges) :
      \/ edges[i].targetId \in NodeIds(nodes)
      \/ edges[i].type = "IMPORTS" /\ IsRaw(edges[i].targetId)

\* C7: the final nodes and edges arrays are determined by the file list, the files'
\* texts and the rules: whatever the number of workers and the order in which they take
\* and finish files, the completed run holds the map of the single-worker run.
C7_OutputDetermined ==
  pc = "done" => CodeMap = SequentialRun(filePaths, content, rules)

\* C7 witness: a completed run of two workers over two different files that both gave a
\* result, in which two different nodes tie on (type, filePath, label) and two edges tie
\* on (type, sourceId, targetId).
C7_TwoWorkersWithTies ==
  /\ pc = "done" /\ concurrency >= 2
  /\ Len(results) >= 2 /\ results[1].filePath # results[2].filePath
  /\ \E i, j \in 1..Len(nodes) : i < j /\ NodeKey(nodes[i]) = NodeKey(nodes[j])
                                  /\ nodes[i] # nodes[j]
  /\ \E i, j \in 1..Len(edges) : i < j /\ edges[i] = edges[j]

\* C8: the final nodes array is in non-decreasing order of (type, filePath, label) and
\* the final edges array in non-decreasing order of (type, sourceId, targetId), and the
\* same stable sort applied again leaves both unchanged.
C8_SortedAndStable ==
  pc = "done" =>
    /\ \A i \in 1..(Len(nodes) - 1) : ~NodeLess(nodes[i + 1], nodes[i])
    /\ \A i \in 1..(Len(edges) - 1) : ~EdgeLess(edges[i + 1], edges[i])
    /\ StableSort(nodes, NodeKey) = nodes
    /\ StableSort(edges, EdgeKey) = edges

\* C8 witness: a completed run whose sort moved nodes and moved edges, with a tie among
\* the nodes.
C8_SortReordered ==
  /\ pc = "done"
  /\ Len(nodes) = Len(preNodes) /\ nodes # preNodes /\ edges # preEdges
  /\ \E i \in 1..(Len(nodes) - 1) : NodeKey(nodes[i]) = NodeKey(nodes[i + 1])
  /\ \E i \in 1..(Len(edges) - 1) : EdgeLess(edges[i], edges[i + 1])

IsSyntheticId(id) ==
  id \in {DbNodeId, GraphQLSchemaId} \/ (id # <<>> /\ id[1] \in {"image:", "table:"})

\* C9: after any sequence of the linkage passes (DB lineage, ORM, Kubernetes, GraphQL
\* SDL) the nodes array holds at most one node of each synthetic id: db:generic,
\* graphql:schema, every image:<ref>, every table:<name>.
C9_SyntheticNodesOnce ==
  \A i, j \in 1..Len(nodes) :
    (nodes[i].id = nodes[j].id /\ IsSyntheticId(nodes[i].id)) => i = j

\* C9 witness: a pass was called twice with another pass between, and the map holds an
\* image node two deployments refer to, a table node two snippets name, or the schema
\* node of two SDL files, each referred to again by the repeated pass.
C9_RepeatedPasses ==
  /\ Len(passes) >= 3 /\ passes[1] = passes[3] /\ passes[1] # passes[2]
  /\ \E i \in 1..Len(nodes) :
       /\ IsSyntheticId(nodes[i].id)
       /\ Cardinality({k \in 1..Len(edges) : edges[k].targetId = nodes[i].id}) >= 4

\* C10: once IMPORTS resolution has run, every IMPORTS edge either is the edge the
\* strategy emitted, raw specifier included, or targets a node of type File whose
\* filePath is the path the specifier resolves to on disk; no node of another type has
\* the target's id.
C10_ImportsRawOrFile ==
  /\ pc = "apicalls" =>
       \A i \in 1..Len(edges) :
         edges[i].type = "IMPORTS" =>
           LET emitted == MergeResults(results).edges[i]
               source == nodes[FindIndex(nodes, LAMBDA n : n.id = emitted.sourceId)]
               resolved == RequireResolve(PathResolve(Dirname(source.filePath),
                                                      Tail(emitted.targetId)))
           IN  \/ edges[i] = emitted /\ IsRaw(emitted.targetId)
               \/ /\ resolved \in Disk
                  /\ \E n \in 1..Len(nodes) : /\ nodes[n].id = edges[i].targetId
                                              /\ nodes[n].type = "File"
                                              /\ nodes[n].filePath = resolved
  /\ pc \notin {"extract", "imports"} =>
       \A i \in 1..Len(edges) :
         edges[i].type = "IMPORTS" =>
           \/ IsRaw(edges[i].targetId)
           \/ /\ edges[i].targetId \in NodeIds(nodes)
              /\ \A n \in 1..Len(nodes) :
                   nodes[n].id = edges[i].targetId =>
                     nodes[n].type = "File" /\ nodes[n].filePath \in Disk

\* C10 witness: resolution has just run; one IMPORTS edge was rewritten to the File node
\* of a file that also holds a route, and another was left with its raw specifier.
C10_ResolvedAndRaw ==
  /\ pc = "apicalls"
  /\ \E i \in 1..Len(edges) :
       /\ edges[i].type = "IMPORTS" /\ ~IsRaw(edges[i].targetId)
       /\ \E n, r \in 1..Len(nodes) : /\ nodes[n].id = edges[i].targetId
                                      /\ nodes[r].filePath = nodes[n].filePath
                                      /\ nodes[r].type = "APIRoute"
  /\ \E i \in 1..Len(edges) : edges[i].type = "IMPORTS" /\ IsRaw(edges[i].targetId)

\* the files of the run's list whose read throws
UnreadableListed == {filePaths[i] : i \in 1..Len(filePaths)} \cap {f \in Files : ReadThrows(f)}

\* C11: a file whose read fails is skipped and the run goes on: analyzeProject does not
\* reject because of it, and the finished map holds no node of that file.
C11_ReadFailureSkipped ==
  UnreadableListed # {} =>
    /\ pc # "rejected"
    /\ pc = "done" => \A i \in 1..Len(nodes) : nodes[i].filePath \notin UnreadableListed

\* the files of the run's list on which parser.parse throws
ParseFailedListed ==
  {filePaths[i] : i \in 1..Len(filePaths)}
    \cap {f \in Files : ParserFor(f) /\ env.fault[f] = "parsethrows"}

\* C12: an error raised while parsing a file or running its strategy is swallowed:
\* analyzeProject does not reject, and the finished map holds of the failing file at
\* most one node, of type File.
C12_ParseErrorsSwallowed ==
  ParseFailedListed # {} =>
    /\ pc # "rejected"
    /\ pc = "done" =>
         \A f \in ParseFailedListed :
           LET own == {i \in 1..Len(nodes) : nodes[i].filePath = f}
           IN  Cardinality(own) <= 1 /\ \A i \in own : nodes[i].type = "File"

\* the files of the run's list that have a language tag, a strategy reading the syntax
\* tree, and no parser
NoParserListed ==
  {filePaths[i] : i \in 1..Len(filePaths)}
    \cap {f \in Files : /\ LanguageFromExtension(f) \in
                             {"JavaScript", "Go", "PHP", "SQL", "TypeScript"}
                        /\ ~ParserFor(f)}

\* C13: a file with a language tag but no parser contributes exactly one node, of type
\* File, and no edge.
C13_NoParserOneFileNode ==
  pc = "done" =>
    \A f \in NoParserListed :
      /\ Cardinality({i \in 1..Len(nodes) : nodes[i].filePath = f}) = 1
      /\ \A i \in 1..Len(nodes) : nodes[i].filePath = f => nodes[i].type = "File"
      /\ \A j \in 1..Len(edges) : edges[j].sourceId # FileId(f)

\* the files larger than the configured maxFileSizeKB
Oversized == {f \in Files : env.sizeKB[f] > env.maxFileSizeKB}

\* C14: no node and no edge of the final map comes from a file larger than
\* maxFileSizeKB, whether the file list came from glob or from onlyFiles.
C14_OversizedFilesExcluded ==
  pc = "done" =>
    /\ \A i \in 1..Len(nodes) : nodes[i].filePath \notin Oversized
    /\ \A j \in 1..Len(edges) : \A f \in Oversized : edges[j].sourceId # FileId(f)

\* C15: the statistics are those of the finalized map: every unused controller they name
\* is a node of the final map, and they count as many unused controllers as the final
\* map has (a duplicate route removed by the collapse is not counted).
C15_StatisticsOverFinalMap ==
  pc = "done" =>
    /\ \A k \in 1..Len(statistics.deadCode.issues) :
         statistics.deadCode.issues[k].type = "Unused Controller" =>
           \E i \in 1..Len(nodes) : /\ nodes[i].filePath = statistics.deadCode.issues[k].filePath
                                    /\ nodes[i].label = statistics.deadCode.issues[k].name
    /\ statistics.deadCode.controllers = Len(UnusedControllers(CodeMap))

\* the APIRoute nodes of the App Router file in a map
AppRoutes(ns) == {i \in 1..Len(ns) : ns[i].type = "APIRoute" /\ ns[i].filePath = FileR}

\* C16: for the App Router file app/api/users/route.ts exporting GET and POST handlers
\* the final map holds one APIRoute node labeled /users per exported method: two nodes.
C16_OneRoutePerExportedMethod ==
  (pc = "done" /\ FileR \in SeqToSet(filePaths)) =>
    /\ \A i \in AppRoutes(nodes) : nodes[i].label = "/users"
    /\ \A m \in SeqToSet(content[FileR].exported) :
         \E i \in AppRoutes(nodes) : nodes[i].metadata.httpMethod = m
    /\ Cardinality(AppRoutes(nodes)) = Cardinality(SeqToSet(content[FileR].exported))

\* the Terraform module Components of a map whose source is a local path
LocalModules(ns) ==
  {i \in 1..Len(ns) : /\ ns[i].language = "Terraform" /\ ns[i].metadata.kind = "module"
                      /\ ns[i].metadata.source # <<>> /\ ns[i].metadata.source[1] = "."}

\* C17: the REFERENCES edge of a Terraform module with a local source targets the raw
\* source string when no File node exists at that path, and the id of the File node at
\* that path when one exists.
C17_ModuleReferenceTarget ==
  pc = "done" =>
    \A i \in LocalModules(nodes) :
      LET m == nodes[i]
          at == PathResolve(Dirname(m.filePath), m.metadata.source)
          refs == {e.targetId : e \in {x \in SeqToSet(edges) :
                                         x.sourceId = m.id /\ x.type = "REFERENCES"}}
      IN  IF \E j \in 1..Len(nodes) : nodes[j].type = "File" /\ nodes[j].filePath = at
          THEN refs = {FileId(at)}
          ELSE refs = {Raw(m.metadata.source)}

\* the node ids a resources entry r of the Kustomize node k may reference: with the
\* candidates r, r.yaml, r.yml resolved against the kustomization's directory, and p the
\* first candidate that is the file of some node, the Deployment Components of p, else
\* the Components of p, else the File node of p; with no such candidate, the YAML nodes
\* whose file has the basename of r
KustomizeTargets(ns, k, r) ==
  LET baseDir == Dirname(k.filePath)
      candidates == <<r, WithExt(r, ".yaml"), WithExt(r, ".yml")>>
      OfFile(f) == {i \in 1..Len(ns) : ns[i].filePath = f}
      hits == {c \in 1..3 : OfFile(PathResolve(baseDir, candidates[c])) # {}}
  IN  IF hits # {}
      THEN LET own == OfFile(PathResolve(baseDir, candidates[CHOOSE c \in hits : \A d \in hits : c <= d]))
               comps == {i \in own : ns[i].type = "Component"}
               deps == {i \in comps : ns[i].metadata.resourceKind = "Deployment"}
           IN  IF deps # {} THEN {ns[i].id : i \in deps}
               ELSE IF comps # {} THEN {ns[i].id : i \in comps}
               ELSE {ns[i].id : i \in {j \in own : ns[j].type = "File"}}
      ELSE {ns[i].id : i \in {j \in 1..Len(ns) : /\ ns[j].language = "YAML" /\ ns[j].filePath # <<>>
                                                 /\ ns[j].filePath[Len(ns[j].filePath)] = r[Len(r)]}}

\* C18: the REFERENCES edges of a Kustomize node are one per resources entry that
\* matches something, each to a node preferred as above, and none for an entry that
\* matches nothing.
C18_KustomizePreference ==
  pc = "done" =>
    \A i \in 1..Len(nodes) :
      (nodes[i].language = "YAML" /\ nodes[i].metadata.platform = "Kustomize") =>
        LET k == nodes[i]
            entries == SeqToSet(k.metadata.resources)
            targets == {e.targetId : e \in {x \in SeqToSet(edges) :
                                              x.sourceId = k.id /\ x.type = "REFERENCES"}}
        IN  /\ \A t \in targets : \E r \in entries : t \in KustomizeTargets(nodes, k, r)
            /\ \A r \in entries :
                 KustomizeTargets(nodes, k, r) # {} => targets \cap KustomizeTargets(nodes, k, r) # {}

\* the Kubernetes nodes of a kind in a map
K8sOfKind(ns, kinds) ==
  {i \in 1..Len(ns) : /\ ns[i].language = "YAML" /\ ns[i].metadata.platform = "Kubernetes"
                      /\ ns[i].metadata.resourceKind \in kinds}

\* C19: once the Kubernetes pass has run, the REFERENCES edges from a Service to a
\* Deployment or Pod are exactly one per (Service, target) pair in which the selector
\* map is non-empty and every selector entry is among the target's labels; in
\* particular a Service with an empty selector has none.
C19_SelectorEdges ==
  (\E k \in 1..Len(passes) : passes[k] = "kubernetes") =>
    LET svcs == K8sOfKind(nodes, {"Service"})
        tgts == K8sOfKind(nodes, {"Deployment", "Pod"})
    IN  \A a \in {nodes[i].id : i \in svcs} : \A b \in {nodes[j].id : j \in tgts} :
          Cardinality({e \in 1..Len(edges) : edges[e] = MkEdge(a, b, "REFERENCES")})
            = Cardinality({ij \in svcs \X tgts :
                             /\ nodes[ij[1]].id = a /\ nodes[ij[2]].id = b
                             /\ nodes[ij[1]].metadata.selectors # {}
                             /\ \A kv \in nodes[ij[1]].metadata.selectors :
                                  kv \in nodes[ij[2]].metadata.labels})

\* a finished run with a Service of empty selector, a Service linked to a Pod, and a
\* Service with a non-empty selector that some Deployment does not satisfy
C19_SelectorCases ==
  /\ pc = "done"
  /\ \E i \in K8sOfKind(nodes, {"Service"}) : nodes[i].metadata.selectors = {}
  /\ \E i \in K8sOfKind(nodes, {"Service"}) : \E j \in K8sOfKind(nodes, {"Pod"}) :
       \E e \in 1..Len(edges) : edges[e] = MkEdge(nodes[i].id, nodes[j].id, "REFERENCES")
  /\ \E i \in K8sOfKind(nodes, {"Service"}) : \E j \in K8sOfKind(nodes, {"Deployment"}) :
       /\ nodes[i].metadata.selectors # {}
       /\ \E kv \in nodes[i].metadata.selectors : kv \in nodes[j].metadata.labels
       /\ \E kv \in nodes[i].metadata.selectors : kv \notin nodes[j].metadata.labels
       /\ \A e \in 1..Len(edges) : edges[e] # MkEdge(nodes[i].id, nodes[j].id, "REFERENCES")

\* a :name or {name} segment of a route label
IsParameter(seg) ==
  \/ Len(seg) >= 2 /\ seg[1] = ":"
  \/ Len(seg) >= 3 /\ seg[1] = "{" /\ seg[Len(seg)] = "}"

\* C20: a route label matches a call path exactly when both have the same number of
\* segments and, position by position, a literal segment equals the path's segment and
\* a :name or {name} segment faces one non-empty segment.
C20_RouteMatchBySegments ==
  probe.tested =>
    (probe.matched <=>
       /\ Len(probe.routeSegments) = Len(probe.pathSegments)
       /\ \A i \in 1..Len(probe.routeSegments) :
            IF IsParameter(probe.routeSegments[i]) THEN probe.pathSegments[i] # <<>>
            ELSE probe.routeSegments[i] = probe.pathSegments[i])

C22_MasterMapAfterWorkers ==
  /\ []((\E w \in Workers : wpc[w] \notin {"done", "threw"}) =>
          (pc = "extract" /\ nodes = <<>> /\ edges = <<>> /\ passes = <<>>))
  /\ [][(wpc' # wpc \/ results' # results \/ index' # index) =>
          (nodes' = nodes /\ edges' = edges)]_vars

\* a worker holds a file while results already has an entry and the master map is empty
C22_WorkerRunningMapEmpty ==
  /\ pc = "extract" /\ results # <<>> /\ nodes = <<>> /\ edges = <<>>
  /\ \E w \in Workers : wpc[w] = "run"

\* the post-passes of one run, in the order of analyzeProject
PassOrder ==
  <<"imports">> \o (IF rules # <<>> THEN <<"apicalls">> ELSE <<>>)
    \o <<"dblineage", "orm", "kubernetes", "helm", "terraform", "graphql">>

\* C23: the passes that have run are always an initial part of the order IMPORTS, API_CALL
\* (only with rules configured), DB lineage, ORM, Kubernetes, Helm + Kustomize, Terraform,
\* GraphQL SDL; a pass is appended one at a time, and once the linkage is over every pass
\* of that order has run exactly once
C23_PassesOnceInOrder ==
  /\ [](/\ Len(passes) <= Len(PassOrder)
        /\ \A k \in 1..Len(passes) : passes[k] = PassOrder[k]
        /\ pc \in {"quality", "dedupe", "sort", "done"} => passes = PassOrder)
  /\ [][passes' = passes \/ \E name \in SeqToSet(PassOrder) : passes' = Append(passes, name)]_vars

\* a finished run with rules configured: eight passes, API call synthesis second
C23_AllPassesWithRules ==
  /\ pc = "done" /\ rules # <<>> /\ Len(passes) = 8 /\ passes[2] = "apicalls"

\* C24: a post-pass step keeps every node where it was and as it was, and keeps every edge
\* where it was with its type and sourceId; an edge's targetId changes only in IMPORTS
\* resolution and only on an IMPORTS edge; everything else a pass does is appended
C24_PassesAdditive ==
  [][passes' # passes =>
       /\ Len(nodes') >= Len(nodes) /\ Len(edges') >= Len(edges)
       /\ \A i \in 1..Len(nodes) : nodes'[i] = nodes[i]
       /\ \A i \in 1..Len(edges) :
            /\ edges'[i].type = edges[i].type /\ edges'[i].sourceId = edges[i].sourceId
            /\ edges'[i] = [edges[i] EXCEPT !.targetId = edges'[i].targetId]
            /\ edges'[i].targetId # edges[i].targetId =>
                 (passes'[Len(passes')] = "imports" /\ edges[i].type = "IMPORTS")]_vars

\* after the linkage: an IMPORTS edge was resolved to a File node, other edges of the merge
\* are still there, and passes have appended nodes and edges
C24_ResolvedAndAppended ==
  /\ pc = "quality"
  /\ \E i \in 1..Len(edges) : edges[i].type = "IMPORTS" /\ ~IsRaw(edges[i].targetId)
  /\ \E i \in 1..Len(edges) : edges[i].type = "DB_QUERY"
  /\ \E i \in 1..Len(nodes) : nodes[i].id = DbNodeId
  /\ \E i \in 1..Len(edges) : edges[i].type \notin {"IMPORTS", "DB_QUERY", "REFERENCES"}

\* the positions in ns of the APIRoute nodes under the backend root of rule whose pattern
\* matches url
MatchingRoutes(ns, rule, url) ==
  {r \in 1..Len(ns) : /\ ns[r].type = "APIRoute" /\ StartsWith(ns[r].filePath, rule.backend)
                      /\ RouteMatches(ns[r].label, url)}

\* the extracted URLs of the map ns that have a matching route: node position and
\* position of the URL in the node's snippet, for Function nodes under the frontend root
LinkedCalls(ns, rule) ==
  UNION {{<<n, j>> : j \in {u \in 1..Len(ns[n].codeSnippet.calls) :
                              MatchingRoutes(ns, rule, ns[n].codeSnippet.calls[u]) # {}}} :
         n \in {f \in 1..Len(ns) : /\ ns[f].type = "Function" /\ ns[f].codeSnippet.has
                                   /\ StartsWith(ns[f].filePath, rule.frontend)}}

\* C25: the API_CALL pass appends one API_CALL edge for every extracted URL of a Function
\* under the frontend root that has a matching APIRoute under the backend root, and
\* nothing else; each of these edges goes from such a Function to the first matching route
\* in node order
C25_FirstMatchingRoute ==
  [][(passes' = Append(passes, "apicalls") /\ Len(rules) = 1) =>
       LET rule == rules[1]
           new == SubSeq(edges', Len(edges) + 1, Len(edges'))
       IN  /\ Len(new) = Cardinality(LinkedCalls(nodes, rule))
           /\ \A k \in 1..Len(new) :
                /\ new[k].type = "API_CALL"
                /\ \E c \in LinkedCalls(nodes, rule) :
                     LET matching == MatchingRoutes(nodes, rule, nodes[c[1]].codeSnippet.calls[c[2]])
                         first == CHOOSE r \in matching : \A q \in matching : r <= q
                     IN  new[k].sourceId = nodes[c[1]].id /\ new[k].targetId = nodes[first].id]_vars

\* after the API_CALL pass with the frontend at p/a and the backend at p/b: a call is
\* linked to a route of b.js although a matching route of a.js comes first in the map,
\* and the other call of that Function, which no route matches, has no edge
C25_LinkedPastEarlierRoute ==
  /\ pc = "dblineage" /\ Len(rules) = 1 /\ rules[1].backend = <<"p", "b">>
  /\ \E e \in 1..Len(edges), r, q \in 1..Len(nodes) :
       /\ edges[e].type = "API_CALL" /\ edges[e].targetId = nodes[r].id
       /\ nodes[r].filePath = FileB /\ nodes[q].filePath = FileA /\ q < r
       /\ nodes[q].type = "APIRoute" /\ nodes[q].label = nodes[r].label
  /\ \E n \in 1..Len(nodes) :
       /\ nodes[n].type = "Function" /\ nodes[n].filePath = FileA /\ nodes[n].codeSnippet.has
       /\ Len(nodes[n].codeSnippet.calls) = 2
       /\ Cardinality({e \in 1..Len(edges) : edges[e].type = "API_CALL"}) = 1

\* the chart root of a chart file is its directory; the chart root of a template is the
\* directory that holds its templates/ directory
ChartRootOf(filePath) ==
  IF \E i \in 1..Len(filePath) : filePath[i] = "templates"
  THEN SubSeq(filePath, 1, (CHOOSE i \in 1..Len(filePath) : filePath[i] = "templates") - 1)
  ELSE Dirname(filePath)

IsChart(n) == n.language = "YAML" /\ n.metadata.platform = "Helm" /\ n.label = "Helm Chart"
IsTemplateDoc(n) ==
  n.language = "YAML" /\ n.metadata.platform = "Helm" /\ n.metadata.resourceKind # ""
IsValuesNode(n) ==
  n.language = "YAML" /\ n.filePath # <<>> /\ n.filePath[Len(n.filePath)] = "values.yaml"

\* C26: once the Helm pass has run, a chart node has a REFERENCES edge to every template-doc
\* node of its own chart root and to every values.yaml node, and none to a template-doc node
\* of another chart root
C26_ChartReferencesOwnTemplates ==
  (\E k \in 1..Len(passes) : passes[k] = "helm") =>
    \A c, t \in 1..Len(nodes) :
      IsChart(nodes[c]) =>
        LET linked == \E e \in 1..Len(edges) :
                        /\ edges[e].type = "REFERENCES"
                        /\ edges[e].sourceId = nodes[c].id /\ edges[e].targetId = nodes[t].id
        IN  /\ IsValuesNode(nodes[t]) => linked
            /\ IsTemplateDoc(nodes[t]) =>
                 (linked <=> ChartRootOf(nodes[t].filePath) = ChartRootOf(nodes[c].filePath))

\* the Terraform files of the run's list
TerraformListed ==
  {f \in SeqToSet(filePaths) : LanguageFromExtension(f) = "Terraform"}

\* C27: in the final map, a resource whose block names another extracted resource, in a
\* depends_on list or inline as type.name, has a REFERENCES edge to that resource's node
C27_TerraformReferences ==
  pc = "done" =>
    \A f \in TerraformListed :
      \A i \in 1..Len(content[f].resources) :
        LET resource == content[f].resources[i] IN
        \A named \in SeqToSet(resource.dependsOn) \cup SeqToSet(resource.refs) :
          \A b \in 1..Len(nodes) :
            (/\ nodes[b].language = "Terraform" /\ nodes[b].metadata.kind = "resource"
             /\ nodes[b].label = named /\ named # resource.label) =>
              \E a \in 1..Len(nodes), e \in 1..Len(edges) :
                /\ nodes[a].filePath = f /\ nodes[a].label = resource.label
                /\ nodes[a].metadata.kind = "resource"
                /\ edges[e].type = "REFERENCES"
                /\ edges[e].sourceId = nodes[a].id /\ edges[e].targetId = nodes[b].id

\* the literal state of the scan before index i: begun outside a literal at start, a
\* quote that no backslash precedes opens a literal, and the same quote closes it
RECURSIVE LiteralBefore(_, _, _)
LiteralBefore(code, start, i) ==
  IF i <= start THEN [inside |-> FALSE, quote |-> ""]
  ELSE LET before == LiteralBefore(code, start, i - 1)
           char == code[i]
           escaped == i - 1 > 0 /\ code[i - 1] = "\\"
       IN  IF char \notin Quotes \/ escaped THEN before
           ELSE IF ~before.inside THEN [inside |-> TRUE, quote |-> char]
           ELSE IF char = before.quote THEN [inside |-> FALSE, quote |-> ""]
           ELSE before

\* the indices from start on that hold the brace b outside every literal
BracesAt(code, start, b) ==
  {i \in start..(Len(code) - 1) : code[i + 1] = b /\ ~LiteralBefore(code, start, i).inside}

\* the index just past the brace that closes the first brace opened at or after start,
\* -1 when there is none
ClosingOfFirstOpened(code, start) ==
  LET opened == BracesAt(code, start, "{")
      closed == BracesAt(code, start, "}")
  IN  IF opened = {} THEN -1
      ELSE LET first == CHOOSE o \in opened : \A q \in opened : o <= q
               Balanced(c) == Cardinality({o \in opened : o < c}) = Cardinality({q \in closed : first < q /\ q <= c})
               closing == {c \in closed : c > first /\ Balanced(c)}
           IN  IF closing = {} THEN -1
               ELSE 1 + CHOOSE c \in closing : \A d \in closing : c <= d

\* C29: findMatchingBrace returns the index just past the '}' that closes the first '{'
\* opened at or after start, braces and quotes inside literals and escaped quotes left
\* aside, and -1 when there is no such brace
C29_MatchingBrace ==
  (pc = "brace" /\ probe.tested) => probe.result = ClosingOfFirstOpened(probe.code, probe.start)

\* the loops of a code that start with one of the given loop forms, have a body (up to
\* the brace closing the first brace opened from the loop start on) and whose body holds
\* a find operation and no eager-loading marker
FindLoops(code, loopForms) ==
  {start \in 0..(Len(code) - 1) :
     /\ \E form \in loopForms : start \in LoopStarts(code, form)
     /\ ClosingOfFirstOpened(code, start) # -1
     /\ LET body == SubSeq(code, start + 1, ClosingOfFirstOpened(code, start))
        IN  /\ \E k \in 1..Len(body) : body[k] \in {"db.users.Find(", "User.Find("}
            /\ ~\E k \in 1..Len(body) : body[k] = ".Include("}

\* the number of such loops over the Function / APIRoute nodes of the map that have a snippet
RECURSIVE FindLoopCount(_, _)
FindLoopCount(i, loopForms) ==
  IF i = 0 THEN 0
  ELSE FindLoopCount(i - 1, loopForms) +
       (IF nodes[i].type \in {"Function", "APIRoute"} /\ nodes[i].codeSnippet.has
        THEN Cardinality(FindLoops(nodes[i].codeSnippet.code, loopForms)) ELSE 0)

\* the loops with a find operation and no eager-loading marker are the loops counted in
\* nPlusOneQueries, each once
NPlusOneAsClaimed ==
  (pc = "analyze" /\ statistics # <<>>) =>
    statistics.nPlusOneQueries.count =
      FindLoopCount(Len(nodes), {"for()", "while()", "foreach(", ".forEach("})

\* each for-loop with a find operation and no eager-loading marker is also counted in
\* dbQueriesInLoops
ForLoopsAsClaimed ==
  (pc = "analyze" /\ statistics # <<>>) =>
    statistics.dbQueriesInLoops.count >= FindLoopCount(Len(nodes), {"for()"})

\* C28: a loop of a Function / APIRoute snippet is counted once in nPlusOneQueries when
\* its body holds a find operation and no eager-loading marker, and not otherwise; a
\* for-loop of that kind is also counted in dbQueriesInLoops
C28_LoopCounts == NPlusOneAsClaimed /\ ForLoopsAsClaimed

====
